---- MODULE Spec2Model ----
(***************************************************************************)
(* gh-mcp: bundled github-mcp-server launcher.                             *)
(*                                                                         *)
(* Spec          the top-level run (runBundledServer): checksum, secure    *)
(*               parent directory, staging directory, extraction, child    *)
(*               start, supervision, release, with a concurrent local      *)
(*               actor who replaces the parent path and an external        *)
(*               cancellation.                                             *)
(* SpecChecksum  verifyBundledArchiveChecksum applied to bounded inputs.   *)
(***************************************************************************)
EXTENDS Integers, Sequences, FiniteSets, TLC

\* ------------------------------------------------------------------ bounds
\* How many times the concurrent actor may replace the parent path.
MaxSwaps == 1
\* Longest archive (in bytes) and longest expected digest string (in
\* characters) fed to the checksum verifier.
MaxArchiveLen == 2
MaxDigestLen == 2
\* How many entries an archive holds before the entry under test.
MaxLeading == 1
\* Longest list of candidate parents handed to createTempDirWithFallback.
MaxCandidates == 2
\* Most socket candidates podmanDockerHostCandidates yields.
MaxHosts == 2
\* Longest env list handed to buildPodmanRunArgs.
MaxEnvEntries == 2

\* ------------------------------------------------------- program constants
serverGracefulShutdownTimeout == 3
tempDirNameAttempts == 256

\* ------------------------------------------------------------- file system
\* Objects a path can denote.  D1 is the directory first found at the parent
\* path, DN the directory MkdirAll creates when the path is absent, D2 a
\* directory the concurrent actor owns a name for, LNK a symbolic link to
\* D2, F a regular file.  T1/T2 play the role of D1/D2 for the system temp
\* root.
DirObjs == {"D1", "D2", "DN", "T1", "T2"}
Objs == DirObjs \cup {"LNK", "F"}
Missing == "missing"

Kind(o) == IF o \in DirObjs THEN "dir" ELSE IF o = "LNK" THEN "symlink" ELSE "file"
\* What the path denotes once a trailing symbolic link is followed.
Follow(o) == IF o = "LNK" THEN "D2" ELSE o

\* uid_t is 32 bits wide; a uid is held as <<high 16 bits, low 16 bits>>.
EffectiveUid == <<0, 1000>>
OtherUid == <<0, 1001>>
HugeUid == <<45776, 24064>>
Uids == {EffectiveUid, OtherUid, HugeUid}

Perm0700 == 448
Perm0770 == 504
\* perms & 0o077
GroupOtherBits(perm) == perm % 64

NoInfo == [id |-> "none", kind |-> "none", uid |-> <<0, 0>>, perm |-> 0]

\* ------------------------------------------------------------------ errors
Nil == [kind |-> "nil", code |-> 0]
Err(k) == [kind |-> k, code |-> 0]

VARIABLES
    \* platform and build inputs
    goos, intBits, parentDirs, archive, expectedSHA256, archiveFormat,
    \* runBundledServer / materializeBundledServerBinary / createTempDirWithFallback
    pc, candIdx, attemptErrs, result, cleanupKind, cleanupCalls, stagingCreated, afterCleanup,
    \* file system shared with the concurrent actor
    pathObj, tmpPathObj, meta, swapsLeft, entries, fsOps,
    \* tempParentDirState and locals of ensureSecureTempParentDir / createTempDir
    stateInfo, lstatInfo, handleInfo, handleObj, handleSt, closeCount, attempt, stagingHome,
    \* release bookkeeping
    recheck, recheckSaw, releaseRemoved,
    \* context, child process, waiter goroutine, waitForServerExit
    ctxDone, childState, exitStatus, signals, waiterPc, waitCh, waitErr, graceElapsed,
    ctxAtObserve, waitReturned,
    \* checksum verifier inputs and output (SpecChecksum)
    ckArchive, ckExpected, ckResult,
    \* extractor inputs, output file and results (SpecExtract)
    exFormat, exArchive, exOutBefore, exOut, exEnv, exResult, exCopied, exConsumed, exPath,
    \* credentials, parent environment, required list and child environment (SpecEnv)
    envPc, envToken, envHost, envParent, envRequired, envChild, envStart,
    \* createTempDirWithFallback on its own: the candidates handed to
    \* createTempDir so far and the position of the one that succeeded
    fbTried, fbReturned,
    \* the status mainRun hands to os.Exit (-1 while the run is not over)
    exitCode,
    \* container engine selection (SpecEngine): opts.engine, the position in
    \* runWithRunner / runDocker / runPodman, the paths entered so far, what
    \* runDocker and runPodmanSocket returned, the socket candidates still to try and lastErr of
    \* newPodmanDockerClient, the open docker clients, the returned error
    engine, engPc, engTried, dockerErr, socketErr, hostsLeft, lastErr, openClients, engErr,
    \* buildPodmanRunArgs on two env lists that differ only in values
    \* (SpecPodmanArgs)
    paPc, paEnvA, paEnvB, paOutA, paOutB,
    \* validateZipExecutableSize on its own (SpecZipSize): the uint64 size
    \* as four 16-bit limbs, most significant first, and the result
    zsSize, zsResult,
    \* the asset-preparation tool (SpecPrepare): position in run, index into
    \* assets, the files in bundled/ before the run and now, whether the
    \* staging directory exists, the files in it, the outcome of the
    \* attestation check, the parsed checksums, the returned error
    prPc, prIdx, prBundledBefore, prBundled, prStagingDir, prStaged, prAttested,
    prChecksums, prErr

buildVars == <<goos, intBits, parentDirs, archive, expectedSHA256, archiveFormat>>
runVars == <<pc, candIdx, attemptErrs, result, cleanupKind, cleanupCalls, stagingCreated, afterCleanup>>
fsVars == <<pathObj, tmpPathObj, meta, swapsLeft, entries, fsOps>>
parentVars == <<stateInfo, lstatInfo, handleInfo, handleObj, handleSt, closeCount, attempt, stagingHome>>
releaseVars == <<recheck, recheckSaw, releaseRemoved>>
procVars == <<ctxDone, childState, exitStatus, signals, waiterPc, waitCh, waitErr, graceElapsed,
              ctxAtObserve, waitReturned>>
supVars == <<childState, exitStatus, signals, waiterPc, waitCh, waitErr, graceElapsed,
             ctxAtObserve, waitReturned>>
ckVars == <<ckArchive, ckExpected, ckResult>>
exVars == <<exFormat, exArchive, exOutBefore, exOut, exEnv, exResult, exCopied, exConsumed,
            exPath>>
envVars == <<envPc, envToken, envHost, envParent, envRequired, envChild, envStart>>
fbVars == <<fbTried, fbReturned>>
mainVars == <<exitCode>>
engVars == <<engine, engPc, engTried, dockerErr, socketErr, hostsLeft, lastErr, openClients, engErr>>
paVars == <<paPc, paEnvA, paEnvB, paOutA, paOutB>>
zsVars == <<zsSize, zsResult>>
prVars == <<prPc, prIdx, prBundledBefore, prBundled, prStagingDir, prStaged, prAttested,
            prChecksums, prErr>>
fnVars == <<ckVars, exVars, envVars, fbVars, mainVars, engVars, paVars, zsVars, prVars>>
vars == <<buildVars, runVars, fsVars, parentVars, releaseVars, procVars, fnVars>>

\* ------------------------------------------------------ integrity verifier
\* Strings are sequences of ASCII code points.
ChZero == 48
ChUpperA == 65
ChUpperZ == 90
ChLowerA == 97

\* hextable of encoding/hex: "0123456789abcdef".
HexChar(n) == IF n < 10 THEN ChZero + n ELSE ChLowerA + (n - 10)

\* Stand-in for sha256.Sum256: a one-byte digest of the whole byte sequence
\* (length and content both enter), so that different archives can collide
\* or differ as real digests do.
NibbleTable == <<0, 10, 11>>

RECURSIVE ByteSum(_)
ByteSum(a) == IF a = <<>> THEN 0 ELSE Head(a) + ByteSum(Tail(a))

Sum256(a) == <<16 * NibbleTable[(Len(a) % 3) + 1] + NibbleTable[(ByteSum(a) % 3) + 1]>>

\* hex.EncodeToString: two lowercase hex characters per byte.
RECURSIVE EncodeToString(_)
EncodeToString(bs) ==
    IF bs = <<>> THEN <<>>
    ELSE <<HexChar(Head(bs) \div 16), HexChar(Head(bs) % 16)>> \o EncodeToString(Tail(bs))

\* strings.EqualFold on ASCII input: characters are equal, or one is an
\* upper-case letter and the other is that letter + ('a' - 'A').
\* (variant: a case-sensitive comparison)
FoldPairMutant(sr, tr) == sr = tr

FoldPair(sr, tr) ==
    LET lo == IF sr < tr THEN sr ELSE tr
        hi == IF sr < tr THEN tr ELSE sr
    IN  \/ sr = tr
        \/ (ChUpperA <= lo /\ lo <= ChUpperZ /\ hi = lo + (ChLowerA - ChUpperA))

RECURSIVE EqualFold(_, _)
EqualFold(s, t) ==
    IF s = <<>> \/ t = <<>> THEN s = t
    ELSE FoldPair(Head(s), Head(t)) /\ EqualFold(Tail(s), Tail(t))

verifyBundledArchiveChecksum(a, expected) ==
    LET sum == Sum256(a)
        actual == EncodeToString(sum)
    IN  IF ~EqualFold(actual, expected) THEN Err("ChecksumMismatch") ELSE Nil

\* Inputs of the verifier.
ByteVals == {0, 1}
DigestChars == {48, 97, 65, 98, 66, 103}

RECURSIVE SeqsUpTo(_, _)
SeqsUpTo(S, n) ==
    IF n = 0 THEN {<<>>}
    ELSE LET shorter == SeqsUpTo(S, n - 1)
         IN  shorter \cup {Append(q, x) : q \in {r \in shorter : Len(r) = n - 1}, x \in S}

Archives == SeqsUpTo(ByteVals, MaxArchiveLen)
Digests == SeqsUpTo(DigestChars, MaxDigestLen)
Pending == [kind |-> "pending", code |-> 0]

\* ------------------------------------------------------------ build inputs
GoodArchive == <<1>>
GoodSHA == EncodeToString(Sum256(GoodArchive))
BadSHA == <<48, 48>>

\* bundledMCPArchiveName / bundledMCPArchive / bundledMCPArchiveSHA256 as the
\* bundle_<os>_<arch>.go files (or their absence) define them.
\* The POSIX bundles are tar.gz archives, the Windows bundles zip archives.
PlatformFormat(os) == IF os = "windows" THEN "zip" ELSE "tar.gz"

BuildAssets(os) ==
    { [format |-> "", bytes |-> <<>>, sha |-> <<>>],
      [format |-> PlatformFormat(os), bytes |-> <<>>, sha |-> GoodSHA],
      [format |-> PlatformFormat(os), bytes |-> GoodArchive, sha |-> GoodSHA],
      [format |-> PlatformFormat(os), bytes |-> GoodArchive, sha |-> BadSHA],
      [format |-> "other", bytes |-> GoodArchive, sha |-> GoodSHA] }

\* bundledServerTempParentDirs: the cache candidate when os.UserCacheDir
\* works, then always the system temp root ("").
bundledServerTempParentDirs(cacheDirOk) ==
    (IF cacheDirOk THEN <<"cache">> ELSE <<>>) \o <<"">>

\* ------------------------------------------------------- file information
InfoOf(o) == [id |-> o, kind |-> Kind(o), uid |-> meta[o].uid, perm |-> meta[o].perm]

\* (variant: any two infos count as the same file)
SameFileMutant(a, b) == TRUE

SameFile(a, b) == a.id = b.id

\* (variant: the symbolic-link test left out)
validateTempParentDirInfoMutant(info) ==
    IF info.kind = "file" THEN Err("InsecureParent") ELSE Nil

validateTempParentDirInfo(info) ==
    IF info.kind = "symlink" THEN Err("InsecureParent")
    ELSE IF info.kind # "dir" THEN Err("InsecureParent")
    ELSE Nil

\* fileInfoUID: the uid and whether it fits the platform's int.
fileInfoUID(info) ==
    IF intBits = 32 /\ info.uid[1] >= 32768
    THEN [uid |-> <<0, 0>>, ok |-> FALSE]
    ELSE [uid |-> info.uid, ok |-> TRUE]

\* verifyTempParentDirUnchanged, for the path state pObj; statOk is whether
\* the fstat of the held handle works.
\* (variant: the os.SameFile comparison left out)
verifyTempParentDirUnchangedMutant(pObj, statOk) ==
    IF stateInfo = NoInfo THEN Err("StateInvalid")
    ELSE IF pObj = Missing THEN Err("StatFailed")
    ELSE IF validateTempParentDirInfo(InfoOf(pObj)) # Nil THEN Err("InsecureParent")
    ELSE Nil

verifyTempParentDirUnchanged(pObj, statOk) ==
    IF stateInfo = NoInfo THEN Err("StateInvalid")
    ELSE IF pObj = Missing THEN Err("StatFailed")
    ELSE IF validateTempParentDirInfo(InfoOf(pObj)) # Nil
         THEN validateTempParentDirInfo(InfoOf(pObj))
    ELSE IF handleSt # "none" /\ ~(handleSt = "open" /\ statOk) THEN Err("StatFailed")
    ELSE LET baseline == IF handleSt # "none" THEN InfoOf(handleObj) ELSE stateInfo
         IN  IF ~SameFile(baseline, InfoOf(pObj)) THEN Err("InsecureParent") ELSE Nil

\* A directory holds an entry with the staging name when the staging
\* directory was made there, or when the concurrent actor planted one.
HasEntry(d) == d \in DirObjs /\ (d \in entries \/ d # stagingHome)

Op(o, d, v, k) == [op |-> o, dir |-> d, via |-> v, parent |-> k]

\* -------------------------------------------------------------------- Init
InitIdleChecksum ==
    /\ ckArchive = <<>>
    /\ ckExpected = <<>>
    /\ ckResult = Pending

\* ----------------------------------------------------------- file contents
\* File and stream contents: the bytes of head followed by pad zero bytes
\* (head holds non-zero bytes only, so equal contents are equal values).
Content(h, p) == [head |-> h, pad |-> p]
EmptyContent == Content(<<>>, 0)
ContentLen(c) == Len(c.head) + c.pad
\* No file at the path.
AbsentFile == Content(<<>>, -1)

\* What the file system and the readers do during one extraction.
ExtractEnvs ==
    [openOk : BOOLEAN, ioFail : {"none", "read", "write"}, closeOk : BOOLEAN,
     entryOpenOk : BOOLEAN, rcCloseOk : BOOLEAN]

NoFailure ==
    [openOk |-> TRUE, ioFail |-> "none", closeOk |-> TRUE, entryOpenOk |-> TRUE,
     rcCloseOk |-> TRUE]

InitIdleExtract ==
    /\ exFormat = ""
    /\ exArchive = <<>>
    /\ exOutBefore = AbsentFile
    /\ exOut = AbsentFile
    /\ exEnv = NoFailure
    /\ exResult = Pending
    /\ exCopied = 0
    /\ exConsumed = 0
    /\ exPath = ""

InitIdleEnv ==
    /\ envPc = "idle"
    /\ envToken = <<>>
    /\ envHost = <<>>
    /\ envParent = <<>>
    /\ envRequired = <<>>
    /\ envChild = <<>>
    /\ envStart = "none"

InitIdleFallback ==
    /\ fbTried = <<>>
    /\ fbReturned = 0

InitIdleMain == exitCode = -1

InitIdleEngine ==
    /\ engine = "auto"
    /\ engPc = "idle"
    /\ engTried = <<>>
    /\ dockerErr = {"pending"}
    /\ socketErr = {"pending"}
    /\ hostsLeft = 0
    /\ lastErr = {}
    /\ openClients = 0
    /\ engErr = {"pending"}

InitIdlePodmanArgs ==
    /\ paPc = "idle"
    /\ paEnvA = <<>>
    /\ paEnvB = <<>>
    /\ paOutA = [args |-> <<>>, cmdEnv |-> <<>>, err |-> Pending]
    /\ paOutB = [args |-> <<>>, cmdEnv |-> <<>>, err |-> Pending]

InitIdleZipSize ==
    /\ zsSize = <<0, 0, 0, 0>>
    /\ zsResult = Pending

InitIdlePrepare ==
    /\ prPc = "idle"
    /\ prIdx = 0
    /\ prBundledBefore = <<>>
    /\ prBundled = <<>>
    /\ prStagingDir = FALSE
    /\ prStaged = <<>>
    /\ prAttested = "none"
    /\ prChecksums = <<>>
    /\ prErr = Pending

InitIdleFns ==
    /\ InitIdleChecksum
    /\ InitIdleExtract
    /\ InitIdleEnv
    /\ InitIdleFallback
    /\ InitIdleMain
    /\ InitIdleEngine
    /\ InitIdlePodmanArgs
    /\ InitIdleZipSize
    /\ InitIdlePrepare

InitProc ==
    /\ ctxDone = FALSE
    /\ childState = "notstarted"
    /\ exitStatus = 0
    /\ signals = <<>>
    /\ waiterPc = "idle"
    /\ waitCh = <<>>
    /\ waitErr = Pending
    /\ graceElapsed = 0
    /\ ctxAtObserve = "none"
    /\ waitReturned = FALSE

InitParent ==
    /\ stateInfo = NoInfo
    /\ lstatInfo = NoInfo
    /\ handleInfo = NoInfo
    /\ handleObj = "none"
    /\ handleSt = "none"
    /\ closeCount = 0
    /\ attempt = 0
    /\ stagingHome = "none"
    /\ recheck = "none"
    /\ recheckSaw = "none"
    /\ releaseRemoved = "none"

InitRun ==
    /\ candIdx = 1
    /\ attemptErrs = <<>>
    /\ result = Pending
    /\ cleanupKind = "none"
    /\ cleanupCalls = 0
    /\ stagingCreated = FALSE
    /\ afterCleanup = Pending

Init ==
    /\ goos \in {"posix", "windows"}
    /\ intBits \in {32, 64}
    /\ goos = "windows" => intBits = 64
    /\ \E cacheDirOk \in BOOLEAN : parentDirs = bundledServerTempParentDirs(cacheDirOk)
    /\ \E a \in BuildAssets(goos) :
          /\ archiveFormat = a.format
          /\ archive = a.bytes
          /\ expectedSHA256 = a.sha
    /\ pc = "start"
    /\ InitRun
    /\ pathObj \in {Missing, "D1", "LNK", "F"}
    /\ tmpPathObj = "T1"
    /\ \E u \in Uids, p \in {Perm0700, Perm0770} :
          /\ (u = HugeUid <=> intBits = 32)
          /\ meta = [o \in Objs |-> IF o = "D1" THEN [uid |-> u, perm |-> p]
                                    ELSE [uid |-> EffectiveUid, perm |-> Perm0700]]
    /\ swapsLeft = MaxSwaps
    /\ entries = {}
    /\ fsOps = {}
    /\ InitParent
    /\ InitProc
    /\ InitIdleFns

\* --------------------------------------- materializeBundledServerBinary (1)
\* The two checks made before any file system work.
\* (variant: the checksum verification left out)
materializePrecheckMutant(format, bytes, sha) ==
    IF format = "" \/ bytes = <<>> THEN Err("NoBundledServerForPlatform") ELSE Nil

materializePrecheck(format, bytes, sha) ==
    IF format = "" \/ bytes = <<>> THEN Err("NoBundledServerForPlatform")
    ELSE verifyBundledArchiveChecksum(bytes, sha)

MaterializeVerify ==
    /\ pc = "start"
    /\ LET e == materializePrecheck(archiveFormat, archive, expectedSHA256)
       IN  IF e # Nil
           THEN /\ result' = e
                /\ pc' = "done"
           ELSE /\ pc' = "fallback"
                /\ UNCHANGED result
    /\ UNCHANGED <<buildVars, candIdx, attemptErrs, cleanupKind, cleanupCalls, stagingCreated,
                   afterCleanup, fsVars, parentVars, releaseVars, procVars, fnVars>>

\* ------------------------------------------------ createTempDirWithFallback
\* (variant: an empty list is left empty)
CandidatesMutant == parentDirs

Candidates == IF Len(parentDirs) = 0 THEN <<"">> ELSE parentDirs

\* One candidate failed: its error joins attemptErrs, the locals of the
\* attempt are gone, the loop moves on.
CandidateFail(e) ==
    /\ attemptErrs' = Append(attemptErrs, e)
    /\ candIdx' = candIdx + 1
    /\ pc' = "fallback"
    /\ stateInfo' = NoInfo
    /\ lstatInfo' = NoInfo
    /\ handleInfo' = NoInfo
    /\ attempt' = 0
    /\ UNCHANGED <<result, cleanupKind, cleanupCalls, stagingCreated, afterCleanup>>

\* handle.Close() / parentState.close()
\* (variant: the handle is left open)
CloseHandleMutant ==
    /\ handleSt' = handleSt
    /\ closeCount' = closeCount

CloseHandle ==
    /\ handleSt' = "closed"
    /\ closeCount' = closeCount + 1

FallbackExhausted ==
    /\ pc = "fallback"
    /\ candIdx > Len(Candidates)
    /\ result' = Err("TempDirFailed")
    /\ pc' = "done"
    /\ UNCHANGED <<buildVars, candIdx, attemptErrs, cleanupKind, cleanupCalls, stagingCreated,
                   afterCleanup, fsVars, parentVars, releaseVars, procVars, fnVars>>

\* createTempDir(""): os.MkdirTemp in the system temp root, by path.
CreateTempDirSystem ==
    /\ pc = "fallback"
    /\ candIdx <= Len(Candidates)
    /\ Candidates[candIdx] = ""
    /\ \/ /\ entries' = entries \cup {tmpPathObj}
          /\ stagingHome' = tmpPathObj
          /\ fsOps' = fsOps \cup {Op("mkdir", tmpPathObj, "path", "system")}
          /\ cleanupKind' = "system"
          /\ stagingCreated' = TRUE
          /\ pc' = "extract"
          /\ UNCHANGED <<candIdx, attemptErrs, result, cleanupCalls, afterCleanup,
                         stateInfo, lstatInfo, handleInfo, attempt>>
       \/ /\ CandidateFail("MkdirTempFailed")
          /\ UNCHANGED <<entries, stagingHome, fsOps>>
    /\ UNCHANGED <<buildVars, pathObj, tmpPathObj, meta, swapsLeft, handleObj, handleSt,
                   closeCount, releaseVars, procVars, fnVars>>

\* ------------------------------------------------ ensureSecureTempParentDir
\* os.MkdirAll(parentDir, 0o700): Stat (following links) says directory ->
\* nothing to do; says something else -> ENOTDIR; absent -> Mkdir.
EnsureMkdirAll ==
    /\ pc = "fallback"
    /\ candIdx <= Len(Candidates)
    /\ Candidates[candIdx] # ""
    /\ \/ /\ pathObj = Missing
          /\ pathObj' = "DN"
          /\ pc' = "lstat"
          /\ UNCHANGED <<candIdx, attemptErrs, stateInfo, lstatInfo, handleInfo, attempt>>
       \/ /\ pathObj = Missing
          /\ CandidateFail("MkdirAllFailed")
          /\ UNCHANGED pathObj
       \/ /\ pathObj # Missing
          /\ IF Kind(Follow(pathObj)) = "dir"
             THEN /\ pc' = "lstat"
                  /\ UNCHANGED <<candIdx, attemptErrs, stateInfo, lstatInfo, handleInfo, attempt>>
             ELSE CandidateFail("MkdirAllFailed")
          /\ UNCHANGED pathObj
    /\ UNCHANGED <<buildVars, result, cleanupKind, cleanupCalls, stagingCreated, afterCleanup,
                   tmpPathObj, meta, swapsLeft, entries, fsOps, handleObj, handleSt,
                   closeCount, stagingHome, releaseVars, procVars, fnVars>>

\* os.Lstat + validateTempParentDirInfo; state := &tempParentDirState{info}.
EnsureLstat ==
    /\ pc = "lstat"
    /\ IF pathObj = Missing THEN CandidateFail("StatFailed")
       ELSE IF validateTempParentDirInfo(InfoOf(pathObj)) # Nil
            THEN CandidateFail(validateTempParentDirInfo(InfoOf(pathObj)).kind)
       ELSE /\ lstatInfo' = InfoOf(pathObj)
            /\ stateInfo' = InfoOf(pathObj)
            /\ pc' = "open"
            /\ UNCHANGED <<candIdx, attemptErrs, handleInfo, attempt>>
    /\ UNCHANGED <<buildVars, result, cleanupKind, cleanupCalls, stagingCreated, afterCleanup,
                   fsVars, handleObj, handleSt, closeCount, stagingHome, releaseVars,
                   procVars, fnVars>>

\* What openTempParentDir opens: os.Open follows a trailing link; the
\* Windows CreateFile call (FILE_FLAG_OPEN_REPARSE_POINT) does not.
OpenTarget(o) == IF goos = "windows" THEN o ELSE Follow(o)

\* openTempParentDir, handle.Stat, validateTempParentDirInfo, os.SameFile.
EnsureOpen ==
    /\ pc = "open"
    /\ \E openOk \in BOOLEAN, statOk \in BOOLEAN :
          IF pathObj = Missing \/ ~openOk
          THEN /\ CandidateFail("OpenFailed")
               /\ UNCHANGED <<handleObj, handleSt, closeCount>>
          ELSE /\ handleObj' = OpenTarget(pathObj)
               /\ IF ~statOk
                  THEN CloseHandle /\ CandidateFail("StatFailed")
                  ELSE IF validateTempParentDirInfo(InfoOf(OpenTarget(pathObj))) # Nil
                       THEN CloseHandle /\ CandidateFail("InsecureParent")
                  ELSE IF ~SameFile(lstatInfo, InfoOf(OpenTarget(pathObj)))
                       THEN CloseHandle /\ CandidateFail("InsecureParent")
                  ELSE /\ handleSt' = "open"
                       /\ handleInfo' = InfoOf(OpenTarget(pathObj))
                       /\ pc' = "tighten"
                       /\ UNCHANGED <<candIdx, attemptErrs, stateInfo, lstatInfo, attempt,
                                      closeCount>>
    /\ UNCHANGED <<buildVars, result, cleanupKind, cleanupCalls, stagingCreated, afterCleanup,
                   fsVars, stagingHome, releaseVars, procVars, fnVars>>

\* ensureSecureUnixTempParentDir: owner check on the handle's metadata, then
\* handle.Chmod(0o700) when group/other bits are set; a no-op on Windows.
\* (variant: the owner check left out)
OwnerRejectedMutant(info) == FALSE

OwnerRejected(info) == fileInfoUID(info).ok /\ fileInfoUID(info).uid # EffectiveUid

EnsureTighten ==
    /\ pc = "tighten"
    /\ \E chmodOk \in BOOLEAN, statOk \in BOOLEAN :
          IF goos = "windows"
          THEN /\ pc' = "finallstat"
               /\ UNCHANGED <<candIdx, attemptErrs, stateInfo, lstatInfo, handleInfo, attempt,
                              handleSt, closeCount, meta>>
          ELSE IF OwnerRejected(handleInfo)
               THEN CloseHandle /\ CandidateFail("InsecureParent") /\ UNCHANGED meta
          ELSE IF GroupOtherBits(handleInfo.perm) = 0
               THEN /\ pc' = "finallstat"
                    /\ UNCHANGED <<candIdx, attemptErrs, stateInfo, lstatInfo, handleInfo,
                                   attempt, handleSt, closeCount, meta>>
          ELSE IF ~chmodOk
               THEN CloseHandle /\ CandidateFail("ChmodFailed") /\ UNCHANGED meta
          ELSE /\ meta' = [meta EXCEPT ![handleObj].perm = Perm0700]
               /\ IF ~statOk
                  THEN CloseHandle /\ CandidateFail("StatFailed")
                  ELSE /\ handleInfo' = [handleInfo EXCEPT !.perm = Perm0700]
                       /\ pc' = "finallstat"
                       /\ UNCHANGED <<candIdx, attemptErrs, stateInfo, lstatInfo, attempt,
                                      handleSt, closeCount>>
    /\ UNCHANGED <<buildVars, result, cleanupKind, cleanupCalls, stagingCreated, afterCleanup,
                   pathObj, tmpPathObj, swapsLeft, entries, fsOps, handleObj, stagingHome,
                   releaseVars, procVars, fnVars>>

\* The last os.Lstat of the path, compared with the tightened handle info;
\* on success state.info and state.handle are set.
EnsureFinalLstat ==
    /\ pc = "finallstat"
    /\ IF pathObj = Missing
       THEN CloseHandle /\ CandidateFail("StatFailed")
       ELSE IF validateTempParentDirInfo(InfoOf(pathObj)) # Nil
            THEN CloseHandle /\ CandidateFail("InsecureParent")
       ELSE IF ~SameFile(handleInfo, InfoOf(pathObj))
            THEN CloseHandle /\ CandidateFail("InsecureParent")
       ELSE /\ stateInfo' = handleInfo
            /\ lstatInfo' = InfoOf(pathObj)
            /\ handleInfo' = NoInfo
            /\ pc' = "create"
            /\ UNCHANGED <<candIdx, attemptErrs, attempt, handleSt, closeCount>>
    /\ UNCHANGED <<buildVars, result, cleanupKind, cleanupCalls, stagingCreated, afterCleanup,
                   fsVars, handleObj, stagingHome, releaseVars, procVars, fnVars>>

\* --------------------------------------------- createTempDirInVerifiedParent
\* POSIX: one round of the name loop.  unix.Mkdirat acts on the handle.
\* Windows: os.MkdirTemp(parentDir, ...) resolves the path.
\* (variant: one more round than tempDirNameAttempts)
AttemptsLeftMutant(n) == n <= tempDirNameAttempts

\* for range tempDirNameAttempts, after n rounds
AttemptsLeft(n) == n < tempDirNameAttempts

CreateInVerifiedParent ==
    /\ pc = "create"
    /\ IF handleSt # "open"
       THEN /\ CandidateFail("StateInvalid")
            /\ UNCHANGED <<entries, stagingHome, fsOps, handleSt, closeCount>>
       ELSE IF goos = "windows"
       THEN IF pathObj # Missing /\ Kind(Follow(pathObj)) = "dir"
            THEN /\ entries' = entries \cup {Follow(pathObj)}
                 /\ stagingHome' = Follow(pathObj)
                 /\ fsOps' = fsOps \cup {Op("mkdir", Follow(pathObj), "path", "verified")}
                 /\ pc' = "createverify"
                 /\ UNCHANGED <<candIdx, attemptErrs, stateInfo, lstatInfo, handleInfo, attempt,
                                handleSt, closeCount>>
            ELSE /\ CloseHandle
                 /\ CandidateFail("MkdirFailed")
                 /\ UNCHANGED <<entries, stagingHome, fsOps>>
       ELSE IF ~AttemptsLeft(attempt)
       THEN /\ CloseHandle
            /\ CandidateFail("AttemptsExhausted")
            /\ UNCHANGED <<entries, stagingHome, fsOps>>
       ELSE \E outcome \in {"ok", "EEXIST", "randfail", "oserror"} :
               CASE outcome = "ok" ->
                       /\ entries' = entries \cup {handleObj}
                       /\ stagingHome' = handleObj
                       /\ fsOps' = fsOps \cup {Op("mkdir", handleObj, "handle", "verified")}
                       /\ pc' = "createverify"
                       /\ UNCHANGED <<candIdx, attemptErrs, stateInfo, lstatInfo, handleInfo,
                                      attempt, handleSt, closeCount>>
                 [] outcome = "EEXIST" ->
                       /\ attempt' = attempt + 1
                       /\ UNCHANGED <<pc, candIdx, attemptErrs, stateInfo, lstatInfo, handleInfo,
                                      handleSt, closeCount, entries, stagingHome, fsOps>>
                 [] outcome = "randfail" ->
                       /\ CloseHandle
                       /\ CandidateFail("NameFailed")
                       /\ UNCHANGED <<entries, stagingHome, fsOps>>
                 [] outcome = "oserror" ->
                       /\ CloseHandle
                       /\ CandidateFail("MkdirFailed")
                       /\ UNCHANGED <<entries, stagingHome, fsOps>>
    /\ UNCHANGED <<buildVars, result, cleanupKind, cleanupCalls, stagingCreated, afterCleanup,
                   pathObj, tmpPathObj, meta, swapsLeft, handleObj, releaseVars, procVars,
                   fnVars>>

\* The identity re-check right after the directory was made; on success
\* createTempDir hands out the staging path and its release closure.
CreateVerify ==
    /\ pc = "createverify"
    /\ \E statOk \in BOOLEAN :
          LET e == verifyTempParentDirUnchanged(pathObj, statOk)
          IN  IF e = Nil
              THEN /\ pc' = "extract"
                   /\ stagingCreated' = TRUE
                   /\ cleanupKind' = "verified"
                   /\ attempt' = 0
                   /\ UNCHANGED afterCleanup
              ELSE /\ pc' = "createundo"
                   /\ afterCleanup' = e
                   /\ UNCHANGED <<stagingCreated, cleanupKind, attempt>>
    /\ UNCHANGED <<buildVars, candIdx, attemptErrs, result, cleanupCalls, fsVars, stateInfo,
                   lstatInfo, handleInfo, handleObj, handleSt, closeCount, stagingHome,
                   releaseVars, procVars, fnVars>>

\* Where a path below parentDir lands when it is resolved now.
PathLanding == IF pathObj # Missing /\ HasEntry(Follow(pathObj)) THEN Follow(pathObj) ELSE "none"

\* The re-check failed: unix.Unlinkat on the handle (POSIX) or
\* os.RemoveAll(tmpDir) by path (Windows), then parentState.close().
CreateUndo ==
    /\ pc = "createundo"
    /\ LET landing == IF goos = "windows" THEN PathLanding ELSE handleObj
           via == IF goos = "windows" THEN "path" ELSE "handle"
       IN  /\ entries' = entries \ {landing}
           /\ fsOps' = IF landing = "none" THEN fsOps
                       ELSE fsOps \cup {Op("remove", landing, via, "verified")}
    /\ CloseHandle
    /\ CandidateFail(afterCleanup.kind)
    /\ UNCHANGED <<buildVars, pathObj, tmpPathObj, meta, swapsLeft, handleObj, stagingHome,
                   releaseVars, procVars, fnVars>>

\* --------------------------------------- materializeBundledServerBinary (2)
\* Where binaryPath = filepath.Join(tmpDir, executableName) lands when the
\* extractor opens it (os.OpenFile(outputPath, O_CREATE|O_TRUNC|O_WRONLY)).
BinaryLanding ==
    IF cleanupKind = "system"
    THEN (IF HasEntry(tmpPathObj) THEN tmpPathObj ELSE "none")
    ELSE PathLanding

ExtractFailsBeforeOpen == {"CorruptArchive", "ExecutableNotFound", "InvalidSize"}
ExtractFailsAfterOpen == {"TooLarge", "CopyFailed"}

\* The failure branch of materialize after the staging directory exists:
\* cleanup() is called there and an empty closure is returned.
\* (variant: the error is returned without calling cleanup)
MaterializeFailMutant(e) ==
    /\ result' = e
    /\ pc' = "done"
    /\ UNCHANGED afterCleanup

MaterializeFail(e) ==
    /\ afterCleanup' = e
    /\ pc' = "cleanup"
    /\ UNCHANGED result

Extract ==
    /\ pc = "extract"
    /\ IF archiveFormat \notin {"tar.gz", "zip"}
       THEN /\ MaterializeFail(Err("UnsupportedArchiveFormat"))
            /\ UNCHANGED fsOps
       ELSE \/ \E k \in ExtractFailsBeforeOpen :
                  /\ MaterializeFail(Err(k))
                  /\ UNCHANGED fsOps
            \/ /\ BinaryLanding = "none"
               /\ MaterializeFail(Err("CreateFailed"))
               /\ UNCHANGED fsOps
            \/ /\ BinaryLanding # "none"
               /\ fsOps' = fsOps \cup {Op("write", BinaryLanding, "path", cleanupKind)}
               /\ \/ \E k \in ExtractFailsAfterOpen : MaterializeFail(Err(k))
                  \/ /\ pc' = "chmod"
                     /\ UNCHANGED <<result, afterCleanup>>
    /\ UNCHANGED <<buildVars, candIdx, attemptErrs, cleanupKind, cleanupCalls, stagingCreated,
                   pathObj, tmpPathObj, meta, swapsLeft, entries, parentVars, releaseVars,
                   procVars, fnVars>>

\* os.Chmod(binaryPath, 0o755) outside Windows; then materialize returns
\* (binaryPath, cleanup, nil) and runBundledServer defers cleanup.
ChmodBinary ==
    /\ pc = "chmod"
    /\ \E chmodOk \in BOOLEAN :
          IF goos # "windows" /\ ~chmodOk
          THEN MaterializeFail(Err("ChmodBinaryFailed"))
          ELSE /\ pc' = "ctxcheck"
               /\ UNCHANGED <<result, afterCleanup>>
    /\ UNCHANGED <<buildVars, candIdx, attemptErrs, cleanupKind, cleanupCalls, stagingCreated,
                   fsVars, parentVars, releaseVars, procVars, fnVars>>

\* -------------------------------------------------------- runBundledServer
\* A return of runBundledServer after `defer cleanup()`.
ReturnDeferred(e) ==
    /\ afterCleanup' = e
    /\ pc' = "cleanup"

\* (variant: the context is not looked at before the child is started)
CtxCheckMutant ==
    /\ pc = "ctxcheck"
    /\ pc' = "startcmd"
    /\ UNCHANGED <<buildVars, candIdx, attemptErrs, result, cleanupKind, cleanupCalls,
                   stagingCreated, afterCleanup, fsVars, parentVars, releaseVars, procVars,
                   fnVars>>

CtxCheck ==
    /\ pc = "ctxcheck"
    /\ IF ctxDone THEN ReturnDeferred(Nil)
       ELSE /\ pc' = "startcmd"
            /\ UNCHANGED afterCleanup
    /\ UNCHANGED <<buildVars, candIdx, attemptErrs, result, cleanupKind, cleanupCalls,
                   stagingCreated, fsVars, parentVars, releaseVars, procVars, fnVars>>

\* cmd.Start, and on success the first lines of waitForServerExit: the
\* channel of capacity one and the waiter goroutine.
StartCmd ==
    /\ pc = "startcmd"
    /\ \/ /\ ReturnDeferred(Err("StartFailed"))
          /\ UNCHANGED <<childState, waiterPc>>
       \/ /\ childState' = "running"
          /\ waiterPc' = "waiting"
          /\ pc' = "select"
          /\ UNCHANGED afterCleanup
    /\ UNCHANGED <<buildVars, candIdx, attemptErrs, result, cleanupKind, cleanupCalls,
                   stagingCreated, fsVars, parentVars, releaseVars, ctxDone, exitStatus,
                   signals, waitCh, waitErr, graceElapsed, ctxAtObserve, waitReturned, fnVars>>

\* ------------------------------------------------ child process and waiter
\* Exit statuses a child can end with; -1 is what ExitCode() gives for a
\* child ended by a signal.
NaturalExitCodes == {0, 9}
SignalExitCode == -1

ChildExit ==
    /\ childState = "running"
    /\ childState' = "exited"
    /\ \E c \in NaturalExitCodes \cup {SignalExitCode} :
          /\ (c = SignalExitCode => signals # <<>>)
          /\ exitStatus' = c
    /\ UNCHANGED <<buildVars, runVars, fsVars, parentVars, releaseVars, ctxDone, signals,
                   waiterPc, waitCh, waitErr, graceElapsed, ctxAtObserve, waitReturned, fnVars>>

ExitError(c) == [kind |-> "ExitError", code |-> c]
WaitOther == [kind |-> "WaitOther", code |-> 0]

\* The waiter goroutine: cmd.Wait() returns once the child has ended, and
\* its result goes to the channel of capacity one.
\* (variant: the goroutine loops and sends again)
WaiterDeliverMutant ==
    /\ waiterPc = "waiting"
    /\ childState = "exited"
    /\ Len(waitCh) < 1
    /\ \E r \in {IF exitStatus = 0 THEN Nil ELSE ExitError(exitStatus), WaitOther} :
          waitCh' = Append(waitCh, r)
    /\ UNCHANGED <<buildVars, runVars, fsVars, parentVars, releaseVars, ctxDone, childState,
                   exitStatus, signals, waiterPc, waitErr, graceElapsed, ctxAtObserve,
                   waitReturned, fnVars>>

WaiterDeliver ==
    /\ waiterPc = "waiting"
    /\ childState = "exited"
    /\ Len(waitCh) < 1
    /\ \E r \in {IF exitStatus = 0 THEN Nil ELSE ExitError(exitStatus), WaitOther} :
          waitCh' = Append(waitCh, r)
    /\ waiterPc' = "done"
    /\ UNCHANGED <<buildVars, runVars, fsVars, parentVars, releaseVars, ctxDone, childState,
                   exitStatus, signals, waitErr, graceElapsed, ctxAtObserve, waitReturned,
                   fnVars>>

\* The caller's context is cancelled.  The run reads the context for the
\* first time at ctx.Err(); a cancellation at any earlier moment is the one
\* taken just before that read.
CtxReaders == {"ctxcheck", "startcmd", "select", "inner", "stop", "grace", "kill", "reap"}

Cancel ==
    /\ ~ctxDone
    /\ pc \in CtxReaders
    /\ ctxDone' = TRUE
    /\ UNCHANGED <<buildVars, runVars, fsVars, parentVars, releaseVars, supVars, fnVars>>

\* -------------------------------------------------------- waitForServerExit
\* (variant: an exit error is not told apart from other wait failures)
normalizeServerExitMutant(err) ==
    IF err = Nil THEN Nil
    ELSE [kind |-> "WaitFailed", code |-> 0]

normalizeServerExit(err) ==
    IF err = Nil THEN Nil
    ELSE IF err.kind = "ExitError" THEN [kind |-> "ServerNonZeroExit", code |-> err.code]
    ELSE [kind |-> "WaitFailed", code |-> 0]

\* waitForServerExit returns e; runBundledServer returns it after the
\* deferred cleanup.
WaitReturn(e) ==
    /\ waitReturned' = TRUE
    /\ ReturnDeferred(e)

\* outer select, case waitErr := <-waitCh
SelectRecv ==
    /\ pc = "select"
    /\ waitCh # <<>>
    /\ waitErr' = Head(waitCh)
    /\ waitCh' = Tail(waitCh)
    /\ ctxAtObserve' = IF ctxDone THEN "cancelled" ELSE "live"
    /\ pc' = "inner"
    /\ UNCHANGED <<buildVars, candIdx, attemptErrs, result, cleanupKind, cleanupCalls,
                   stagingCreated, afterCleanup, fsVars, parentVars, releaseVars, ctxDone,
                   childState, exitStatus, signals, waiterPc, graceElapsed, waitReturned,
                   fnVars>>

\* outer select, case <-ctx.Done()
\* (variant: the exit channel is awaited without stopping the child)
SelectCtxMutant ==
    /\ pc = "select"
    /\ ctxDone
    /\ pc' = "reap"
    /\ UNCHANGED <<buildVars, candIdx, attemptErrs, result, cleanupKind, cleanupCalls,
                   stagingCreated, afterCleanup, fsVars, parentVars, releaseVars, procVars,
                   fnVars>>

SelectCtx ==
    /\ pc = "select"
    /\ ctxDone
    /\ pc' = "stop"
    /\ UNCHANGED <<buildVars, candIdx, attemptErrs, result, cleanupKind, cleanupCalls,
                   stagingCreated, afterCleanup, fsVars, parentVars, releaseVars, procVars,
                   fnVars>>

\* The result of the inner select, given whether ctx.Done() is ready.
\* (variant: the inner select left out)
InnerResultMutant(done, err) == normalizeServerExit(err)

InnerResult(done, err) == IF done THEN Nil ELSE normalizeServerExit(err)

InnerSelect ==
    /\ pc = "inner"
    /\ WaitReturn(InnerResult(ctxDone, waitErr))
    /\ UNCHANGED <<buildVars, candIdx, attemptErrs, result, cleanupKind, cleanupCalls,
                   stagingCreated, fsVars, parentVars, releaseVars, ctxDone, childState,
                   exitStatus, signals, waiterPc, waitCh, waitErr, graceElapsed, ctxAtObserve,
                   fnVars>>

\* --------------------------------------------------------- stopServerProcess
\* proc == nil returns at once; otherwise os.Interrupt outside Windows.
\* (variant: the interrupt and the grace window on every platform)
StopBeginMutant ==
    /\ pc = "stop"
    /\ IF childState = "notstarted"
       THEN /\ WaitReturn(Nil)
            /\ UNCHANGED <<signals, graceElapsed>>
       ELSE /\ signals' = Append(signals, "interrupt")
            /\ graceElapsed' = 0
            /\ pc' = "grace"
            /\ UNCHANGED <<afterCleanup, waitReturned>>
    /\ UNCHANGED <<buildVars, candIdx, attemptErrs, result, cleanupKind, cleanupCalls,
                   stagingCreated, fsVars, parentVars, releaseVars, ctxDone, childState,
                   exitStatus, waiterPc, waitCh, waitErr, ctxAtObserve, fnVars>>

StopBegin ==
    /\ pc = "stop"
    /\ IF childState = "notstarted"
       THEN /\ WaitReturn(Nil)
            /\ UNCHANGED <<signals, graceElapsed>>
       ELSE IF goos # "windows"
       THEN /\ signals' = Append(signals, "interrupt")
            /\ graceElapsed' = 0
            /\ pc' = "grace"
            /\ UNCHANGED <<afterCleanup, waitReturned>>
       ELSE /\ pc' = "kill"
            /\ UNCHANGED <<signals, graceElapsed, afterCleanup, waitReturned>>
    /\ UNCHANGED <<buildVars, candIdx, attemptErrs, result, cleanupKind, cleanupCalls,
                   stagingCreated, fsVars, parentVars, releaseVars, ctxDone, childState,
                   exitStatus, waiterPc, waitCh, waitErr, ctxAtObserve, fnVars>>

\* select in the grace window, case <-waitCh
\* (variant: the exit is taken from the channel and the kill follows)
GraceRecvMutant ==
    /\ pc = "grace"
    /\ waitCh # <<>>
    /\ waitErr' = Head(waitCh)
    /\ waitCh' = Tail(waitCh)
    /\ ctxAtObserve' = IF ctxDone THEN "cancelled" ELSE "live"
    /\ pc' = "kill"
    /\ UNCHANGED <<buildVars, candIdx, attemptErrs, result, cleanupKind, cleanupCalls,
                   stagingCreated, afterCleanup, fsVars, parentVars, releaseVars, ctxDone,
                   childState, exitStatus, signals, waiterPc, graceElapsed, waitReturned,
                   fnVars>>

GraceRecv ==
    /\ pc = "grace"
    /\ waitCh # <<>>
    /\ waitErr' = Head(waitCh)
    /\ waitCh' = Tail(waitCh)
    /\ ctxAtObserve' = IF ctxDone THEN "cancelled" ELSE "live"
    /\ WaitReturn(Nil)
    /\ UNCHANGED <<buildVars, candIdx, attemptErrs, result, cleanupKind, cleanupCalls,
                   stagingCreated, fsVars, parentVars, releaseVars, ctxDone, childState,
                   exitStatus, signals, waiterPc, graceElapsed, fnVars>>

\* One second of the grace window passes.
GraceTick ==
    /\ pc = "grace"
    /\ graceElapsed < serverGracefulShutdownTimeout
    /\ graceElapsed' = graceElapsed + 1
    /\ UNCHANGED <<buildVars, runVars, fsVars, parentVars, releaseVars, ctxDone, childState,
                   exitStatus, signals, waiterPc, waitCh, waitErr, ctxAtObserve, waitReturned,
                   fnVars>>

\* select in the grace window, case <-time.After(serverGracefulShutdownTimeout)
\* (variant: a timer that fires at once)
GraceTimeoutMutant ==
    /\ pc = "grace"
    /\ pc' = "kill"
    /\ UNCHANGED <<buildVars, candIdx, attemptErrs, result, cleanupKind, cleanupCalls,
                   stagingCreated, afterCleanup, fsVars, parentVars, releaseVars, procVars,
                   fnVars>>

GraceTimeout ==
    /\ pc = "grace"
    /\ graceElapsed = serverGracefulShutdownTimeout
    /\ pc' = "kill"
    /\ UNCHANGED <<buildVars, candIdx, attemptErrs, result, cleanupKind, cleanupCalls,
                   stagingCreated, afterCleanup, fsVars, parentVars, releaseVars, procVars,
                   fnVars>>

\* _ = proc.Kill(), which leaves the final <-waitCh to do.
\* (variant: return right after the kill, without the final receive)
StopKillMutant ==
    /\ pc = "kill"
    /\ signals' = Append(signals, "kill")
    /\ WaitReturn(Nil)
    /\ UNCHANGED <<buildVars, candIdx, attemptErrs, result, cleanupKind, cleanupCalls,
                   stagingCreated, fsVars, parentVars, releaseVars, ctxDone, childState,
                   exitStatus, waiterPc, waitCh, waitErr, graceElapsed, ctxAtObserve, fnVars>>

StopKill ==
    /\ pc = "kill"
    /\ signals' = Append(signals, "kill")
    /\ pc' = "reap"
    /\ UNCHANGED <<buildVars, candIdx, attemptErrs, result, cleanupKind, cleanupCalls,
                   stagingCreated, afterCleanup, fsVars, parentVars, releaseVars, ctxDone,
                   childState, exitStatus, waiterPc, waitCh, waitErr, graceElapsed,
                   ctxAtObserve, waitReturned, fnVars>>

\* <-waitCh after the kill
StopReap ==
    /\ pc = "reap"
    /\ waitCh # <<>>
    /\ waitErr' = Head(waitCh)
    /\ waitCh' = Tail(waitCh)
    /\ ctxAtObserve' = IF ctxDone THEN "cancelled" ELSE "live"
    /\ WaitReturn(Nil)
    /\ UNCHANGED <<buildVars, candIdx, attemptErrs, result, cleanupKind, cleanupCalls,
                   stagingCreated, fsVars, parentVars, releaseVars, ctxDone, childState,
                   exitStatus, signals, waiterPc, graceElapsed, fnVars>>

\* ----------------------------------------------------------- release closures
\* cleanup of createTempDir(""): os.RemoveAll(tmpDir), by path, unchecked.
CleanupSystem ==
    /\ pc = "cleanup"
    /\ cleanupKind = "system"
    /\ cleanupCalls' = cleanupCalls + 1
    /\ recheck' = "unchecked"
    /\ recheckSaw' = tmpPathObj
    /\ fsOps' = fsOps \cup {Op("remove", tmpPathObj, "path", "system")}
    /\ releaseRemoved' = IF tmpPathObj \in entries THEN "staging" ELSE "other"
    /\ entries' = entries \ {tmpPathObj}
    /\ result' = afterCleanup
    /\ pc' = "done"
    /\ UNCHANGED <<buildVars, candIdx, attemptErrs, cleanupKind, stagingCreated, afterCleanup,
                   pathObj, tmpPathObj, meta, swapsLeft, parentVars, procVars, fnVars>>

\* cleanup of a verified parent, first half: verifyTempParentDirUnchanged;
\* when it fails the closure returns and the deferred close runs.
\* (variant: the handle is closed as soon as the verification has passed,
\* before the removal)
CleanupVerifyMutant ==
    /\ pc = "cleanup"
    /\ cleanupKind = "verified"
    /\ cleanupCalls' = cleanupCalls + 1
    /\ \E statOk \in BOOLEAN :
          IF verifyTempParentDirUnchanged(pathObj, statOk) = Nil
          THEN /\ recheck' = "passed"
               /\ recheckSaw' = pathObj
               /\ pc' = "cleanupremove"
               /\ CloseHandle
               /\ UNCHANGED <<result, releaseRemoved>>
          ELSE /\ recheck' = "failed"
               /\ recheckSaw' = pathObj
               /\ releaseRemoved' = "nothing"
               /\ CloseHandle
               /\ result' = afterCleanup
               /\ pc' = "done"
    /\ UNCHANGED <<buildVars, candIdx, attemptErrs, cleanupKind, stagingCreated, afterCleanup,
                   fsVars, stateInfo, lstatInfo, handleInfo, handleObj, attempt, stagingHome,
                   procVars, fnVars>>

CleanupVerify ==
    /\ pc = "cleanup"
    /\ cleanupKind = "verified"
    /\ cleanupCalls' = cleanupCalls + 1
    /\ \E statOk \in BOOLEAN :
          IF verifyTempParentDirUnchanged(pathObj, statOk) = Nil
          THEN /\ recheck' = "passed"
               /\ recheckSaw' = pathObj
               /\ pc' = "cleanupremove"
               /\ UNCHANGED <<result, releaseRemoved, handleSt, closeCount>>
          ELSE /\ recheck' = "failed"
               /\ recheckSaw' = pathObj
               /\ releaseRemoved' = "nothing"
               /\ CloseHandle
               /\ result' = afterCleanup
               /\ pc' = "done"
    /\ UNCHANGED <<buildVars, candIdx, attemptErrs, cleanupKind, stagingCreated, afterCleanup,
                   fsVars, stateInfo, lstatInfo, handleInfo, handleObj, attempt, stagingHome,
                   procVars, fnVars>>

\* second half: os.RemoveAll(tmpDir), by path, then parentState.close().
CleanupRemove ==
    /\ pc = "cleanupremove"
    /\ fsOps' = IF PathLanding = "none" THEN fsOps
                ELSE fsOps \cup {Op("remove", PathLanding, "path", "verified")}
    /\ releaseRemoved' = IF PathLanding = "none" THEN "nothing"
                         ELSE IF PathLanding \in entries THEN "staging" ELSE "other"
    /\ entries' = entries \ {PathLanding}
    /\ CloseHandle
    /\ result' = afterCleanup
    /\ pc' = "done"
    /\ UNCHANGED <<buildVars, candIdx, attemptErrs, cleanupKind, cleanupCalls, stagingCreated,
                   afterCleanup, pathObj, tmpPathObj, meta, swapsLeft, stateInfo, lstatInfo,
                   handleInfo, handleObj, attempt, stagingHome, recheck, recheckSaw, procVars,
                   fnVars>>

\* ---------------------------------------------------------- concurrent actor
\* Another local actor renames something else onto the parent path, or
\* removes it.  A rename commutes with every step that does not resolve the
\* path, so it is taken right before a step that does.  The directory made
\* by MkdirAll (DN) behaves as D1 owned by the effective user with mode 0700
\* and is not renamed back.
PathResolvers == {"fallback", "lstat", "open", "finallstat", "create", "createverify",
                  "createundo", "extract", "cleanup", "cleanupremove"}

SwapParent ==
    /\ swapsLeft > 0
    /\ pc \in PathResolvers
    /\ cleanupKind # "system"
    /\ ~(pc = "create" /\ attempt > 0)
    /\ \E o \in {Missing, "D1", "D2", "LNK", "F"} \ {pathObj} : pathObj' = o
    /\ swapsLeft' = swapsLeft - 1
    /\ UNCHANGED <<buildVars, runVars, tmpPathObj, meta, entries, fsOps, parentVars,
                   releaseVars, procVars, fnVars>>

\* The same for the system temp root.
SwapTemp ==
    /\ swapsLeft > 0
    /\ cleanupKind = "system"
    /\ pc \in PathResolvers
    /\ tmpPathObj' = IF tmpPathObj = "T1" THEN "T2" ELSE "T1"
    /\ swapsLeft' = swapsLeft - 1
    /\ UNCHANGED <<buildVars, runVars, pathObj, meta, entries, fsOps, parentVars,
                   releaseVars, procVars, fnVars>>

\* ------------------------------------------------------------------ mainRun
\* run(ctx) is runWithRunner, whose error after a successful getAuth is the
\* one of runBundledServer.
\* (variant: the child's exit code becomes the wrapper's own)
mainRunMutant(err) ==
    IF err = Nil THEN 0 ELSE IF err.kind = "ServerNonZeroExit" THEN err.code % 256 ELSE 1

mainRun(err) == IF err # Nil THEN 1 ELSE 0

MainRun ==
    /\ pc = "done"
    /\ exitCode = -1
    /\ exitCode' = mainRun(result)
    /\ UNCHANGED <<buildVars, runVars, fsVars, parentVars, releaseVars, procVars, ckVars,
                   exVars, envVars, fbVars, engVars, paVars, zsVars, prVars>>

\* -------------------------------------------------------------------- Spec
Next ==
    \/ MaterializeVerify
    \/ FallbackExhausted
    \/ CreateTempDirSystem
    \/ EnsureMkdirAll
    \/ EnsureLstat
    \/ EnsureOpen
    \/ EnsureTighten
    \/ EnsureFinalLstat
    \/ CreateInVerifiedParent
    \/ CreateVerify
    \/ CreateUndo
    \/ Extract
    \/ ChmodBinary
    \/ CtxCheck
    \/ StartCmd
    \/ ChildExit
    \/ WaiterDeliver
    \/ Cancel
    \/ SelectRecv
    \/ SelectCtx
    \/ InnerSelect
    \/ StopBegin
    \/ GraceRecv
    \/ GraceTick
    \/ GraceTimeout
    \/ StopKill
    \/ StopReap
    \/ CleanupSystem
    \/ CleanupVerify
    \/ CleanupRemove
    \/ SwapParent
    \/ SwapTemp
    \/ MainRun

Spec == Init /\ [][Next]_vars

\* ----------------------------------------------------------- SpecSupervise
\* The run from the return of materializeBundledServerBinary on, with the
\* staging directory in the system temp root and nobody touching the file
\* system.
InitSupervise ==
    /\ goos \in {"posix", "windows"}
    /\ intBits = 64
    /\ parentDirs = <<"">>
    /\ archiveFormat = PlatformFormat(goos)
    /\ archive = GoodArchive
    /\ expectedSHA256 = GoodSHA
    /\ pc = "ctxcheck"
    /\ candIdx = 1
    /\ attemptErrs = <<>>
    /\ result = Pending
    /\ cleanupKind = "system"
    /\ cleanupCalls = 0
    /\ stagingCreated = TRUE
    /\ afterCleanup = Pending
    /\ pathObj = Missing
    /\ tmpPathObj = "T1"
    /\ meta = [o \in Objs |-> [uid |-> EffectiveUid, perm |-> Perm0700]]
    /\ swapsLeft = 0
    /\ entries = {"T1"}
    /\ fsOps = {Op("mkdir", "T1", "path", "system"), Op("write", "T1", "path", "system")}
    /\ stateInfo = NoInfo
    /\ lstatInfo = NoInfo
    /\ handleInfo = NoInfo
    /\ handleObj = "none"
    /\ handleSt = "none"
    /\ closeCount = 0
    /\ attempt = 0
    /\ stagingHome = "T1"
    /\ recheck = "none"
    /\ recheckSaw = "none"
    /\ releaseRemoved = "none"
    /\ InitProc
    /\ InitIdleFns

NextSupervise ==
    \/ CtxCheck
    \/ StartCmd
    \/ ChildExit
    \/ WaiterDeliver
    \/ Cancel
    \/ SelectRecv
    \/ SelectCtx
    \/ InnerSelect
    \/ StopBegin
    \/ GraceRecv
    \/ GraceTick
    \/ GraceTimeout
    \/ StopKill
    \/ StopReap
    \/ CleanupSystem

\* A child that was sent the kill signal ends.
KilledChildExit == ChildExit /\ "kill" \in {signals[i] : i \in 1..Len(signals)}

\* The goroutine running waitForServerExit and the waiter goroutine are
\* scheduled whenever they can take a step, the timer of time.After runs,
\* and the operating system ends a killed child.  A child that was not
\* killed may run forever.
FairSupervise ==
    /\ WF_vars(SelectRecv)
    /\ WF_vars(SelectCtx)
    /\ WF_vars(InnerSelect)
    /\ WF_vars(StopBegin)
    /\ WF_vars(GraceRecv)
    /\ WF_vars(GraceTick)
    /\ WF_vars(GraceTimeout)
    /\ WF_vars(StopKill)
    /\ WF_vars(StopReap)
    /\ WF_vars(WaiterDeliver)
    /\ WF_vars(KilledChildExit)

SpecSupervise == InitSupervise /\ [][NextSupervise]_vars /\ FairSupervise

\* ------------------------------------------------------------ SpecChecksum
InitChecksum ==
    /\ goos = "posix"
    /\ intBits = 64
    /\ parentDirs = <<"">>
    /\ archiveFormat = ""
    /\ archive = <<>>
    /\ expectedSHA256 = <<>>
    /\ pc = "idle"
    /\ InitRun
    /\ pathObj = Missing
    /\ tmpPathObj = "T1"
    /\ meta = [o \in Objs |-> [uid |-> EffectiveUid, perm |-> Perm0700]]
    /\ swapsLeft = 0
    /\ entries = {}
    /\ fsOps = {}
    /\ InitParent
    /\ InitProc
    /\ ckArchive \in Archives
    /\ ckExpected \in Digests
    /\ ckResult = Pending
    /\ InitIdleExtract
    /\ InitIdleEnv
    /\ InitIdleFallback
    /\ InitIdleMain
    /\ InitIdleEngine
    /\ InitIdlePodmanArgs
    /\ InitIdleZipSize
    /\ InitIdlePrepare

VerifyChecksum ==
    /\ ckResult = Pending
    /\ ckResult' = verifyBundledArchiveChecksum(ckArchive, ckExpected)
    /\ UNCHANGED <<buildVars, runVars, fsVars, parentVars, releaseVars, procVars, ckArchive,
                   ckExpected, exVars, envVars, fbVars, mainVars, engVars, paVars, zsVars, prVars>>

NextChecksum == VerifyChecksum

SpecChecksum == InitChecksum /\ [][NextChecksum]_vars

\* ------------------------------------------------------------- extractors
maxBundledExecutableBytes == 67108864

\* bundledMCPExecutableName, and the names archive entries carry; a name is
\* the sequence of its "/"-separated components.
bundledMCPExecutableName == "github-mcp-server"
NameExact == <<"github-mcp-server">>
NameNested == <<"nested", "github-mcp-server">>
NameOther == <<"README.md">>
NameUnder == <<"github-mcp-server", "README.md">>
\* nested\github-mcp-server: no "/" in it, so a single component
NameBackslash == <<"nested\\github-mcp-server">>

\* path.Base
\* (variant: the first component instead of the last)
BaseMutant(name) == IF name = <<>> THEN "." ELSE name[1]

Base(name) == IF name = <<>> THEN "." ELSE name[Len(name)]

Min(a, b) == IF a < b THEN a ELSE b

\* The first n bytes of c.
Take(c, n) ==
    IF n >= ContentLen(c) THEN c
    ELSE IF n <= Len(c.head) THEN Content(SubSeq(c.head, 1, n), 0)
    ELSE Content(c.head, n - Len(c.head))

OldContent == Content(<<2, 2>>, 1)

\* (variant: the upper bound one byte too high)
validateBundledExecutableSizeMutant(size) ==
    IF size < 0 \/ size > maxBundledExecutableBytes + 1 THEN Err("InvalidSize") ELSE Nil

validateBundledExecutableSize(size) ==
    IF size < 0 \/ size > maxBundledExecutableBytes THEN Err("InvalidSize") ELSE Nil

\* The declared size is held as the 64-bit pattern read as int64; read as
\* uint64 it exceeds math.MaxInt64 exactly when that int64 is negative.
validateZipExecutableSize(bits) ==
    IF bits < 0 THEN Err("InvalidSize") ELSE validateBundledExecutableSize(bits)

\* io.Copy(dst, io.LimitReader(src, max+1)) on a stream that yields the
\* bytes of `stream`; ioFail = "read": the source returns an error instead
\* of EOF after its bytes; ioFail = "write": dst rejects the first write.
\* (variant: the limit reader left out)
copyBundledExecutableWithLimitMutant(stream, ioFail) ==
    LET n == ContentLen(stream)
    IN  IF ioFail = "write" /\ n > 0
        THEN [err |-> Err("CopyFailed"), written |-> EmptyContent, copied |-> 0]
        ELSE IF ioFail = "read"
        THEN [err |-> Err("CopyFailed"), written |-> Take(stream, n), copied |-> n]
        ELSE IF n > maxBundledExecutableBytes
        THEN [err |-> Err("TooLarge"), written |-> Take(stream, n), copied |-> n]
        ELSE [err |-> Nil, written |-> Take(stream, n), copied |-> n]

copyBundledExecutableWithLimit(stream, ioFail) ==
    LET limit == maxBundledExecutableBytes + 1
        n == Min(ContentLen(stream), limit)
    IN  IF ioFail = "write" /\ n > 0
        THEN [err |-> Err("CopyFailed"), written |-> EmptyContent, copied |-> 0]
        ELSE IF ioFail = "read" /\ ContentLen(stream) < limit
        THEN [err |-> Err("CopyFailed"), written |-> Take(stream, n), copied |-> n]
        ELSE IF n > maxBundledExecutableBytes
        THEN [err |-> Err("TooLarge"), written |-> Take(stream, n), copied |-> n]
        ELSE [err |-> Nil, written |-> Take(stream, n), copied |-> n]

\* What an extractor leaves behind: its error, the output file, the bytes
\* copied and how many archive entries it went through.
Outcome(e, o, c, k) == [err |-> e, out |-> o, copied |-> c, consumed |-> k]

\* The loop over tarReader.Next(), from entry i on: where it stops.
\* (variant: names are compared whole, not by base name)
TarEntryMatchesMutant(h) == h.regular /\ h.name = <<bundledMCPExecutableName>>

TarEntryMatches(h) == h.regular /\ Base(h.name) = bundledMCPExecutableName

RECURSIVE TarScan(_, _)
\* (variant: the scan goes on after a match, so the last match is the one
\* that is handled)
TarScanMutant(arch, i) ==
    LET ms == {j \in i..Len(arch) : ~arch[j].corrupt /\ TarEntryMatches(arch[j])}
        cs == {j \in i..Len(arch) : arch[j].corrupt}
    IN  IF cs # {}
        THEN [kind |-> "corrupt", idx |-> CHOOSE j \in cs : \A c \in cs : j <= c]
        ELSE IF ms = {} THEN [kind |-> "eof", idx |-> Len(arch)]
        ELSE [kind |-> "match", idx |-> CHOOSE j \in ms : \A c \in ms : j >= c]

TarScan(arch, i) ==
    IF i > Len(arch) THEN [kind |-> "eof", idx |-> i - 1]
    ELSE IF arch[i].corrupt THEN [kind |-> "corrupt", idx |-> i]
    ELSE IF TarEntryMatches(arch[i]) THEN [kind |-> "match", idx |-> i]
    ELSE TarScan(arch, i + 1)

\* os.OpenFile, copyBundledExecutableWithLimit, file.Close on the matched
\* entry h; afterClose is the error of what follows the file's Close.
WriteOut(h, out, env, k, afterClose) ==
    IF ~env.openOk THEN Outcome(Err("CreateFailed"), out, 0, k)
    ELSE LET cp == copyBundledExecutableWithLimit(h.stream, env.ioFail)
         IN  IF cp.err # Nil THEN Outcome(cp.err, cp.written, cp.copied, k)
             ELSE IF ~env.closeOk THEN Outcome(Err("CloseFailed"), cp.written, cp.copied, k)
             ELSE Outcome(afterClose, cp.written, cp.copied, k)

extractTarGzExecutable(arch, out, env) ==
    LET stop == TarScan(arch, 1)
    IN  CASE stop.kind = "corrupt" -> Outcome(Err("CorruptArchive"), out, 0, stop.idx)
          [] stop.kind = "eof" -> Outcome(Err("ExecutableNotFound"), out, 0, stop.idx)
          [] stop.kind = "match" ->
                LET h == arch[stop.idx]
                IN  IF validateBundledExecutableSize(h.size) # Nil
                    THEN Outcome(validateBundledExecutableSize(h.size), out, 0, stop.idx)
                    ELSE WriteOut(h, out, env, stop.idx, Nil)

\* The loop over zipReader.File.
ZipEntryMatches(h) == Base(h.name) = bundledMCPExecutableName

RECURSIVE ZipScan(_, _)
ZipScan(arch, i) ==
    IF i > Len(arch) THEN [kind |-> "eof", idx |-> i - 1]
    ELSE IF ZipEntryMatches(arch[i]) THEN [kind |-> "match", idx |-> i]
    ELSE ZipScan(arch, i + 1)

\* zip.NewReader reads the whole central directory first.
extractZipExecutable(arch, out, env) ==
    IF \E i \in 1..Len(arch) : arch[i].corrupt
    THEN Outcome(Err("CorruptArchive"), out, 0, 0)
    ELSE LET stop == ZipScan(arch, 1)
         IN  IF stop.kind = "eof" THEN Outcome(Err("ExecutableNotFound"), out, 0, stop.idx)
             ELSE LET h == arch[stop.idx]
                  IN  IF validateZipExecutableSize(h.size) # Nil
                      THEN Outcome(validateZipExecutableSize(h.size), out, 0, stop.idx)
                      ELSE IF ~env.entryOpenOk
                      THEN Outcome(Err("OpenEntryFailed"), out, 0, stop.idx)
                      ELSE WriteOut(h, out, env, stop.idx,
                                    IF env.rcCloseOk THEN Nil ELSE Err("CloseEntryFailed"))

\* ------------------------------------------------------------- SpecExtract
Entry(n, r, c, sz, st) == [name |-> n, regular |-> r, corrupt |-> c, size |-> sz, stream |-> st]

\* Declared sizes and streams around the limit.
DeclaredSizes == {-1, 0, 1, maxBundledExecutableBytes, maxBundledExecutableBytes + 1}
Streams ==
    { EmptyContent, Content(<<1>>, 0), Content(<<2>>, 0),
      Content(<<1>>, maxBundledExecutableBytes - 1),
      Content(<<1>>, maxBundledExecutableBytes),
      Content(<<1>>, maxBundledExecutableBytes + 1) }

\* Entries that come before the entry under test: another file, a file
\* below a directory with the executable's name, an unreadable header.
LeadingEntries ==
    { Entry(NameOther, TRUE, FALSE, 1, Content(<<2>>, 0)),
      Entry(NameUnder, TRUE, FALSE, 0, EmptyContent),
      Entry(NameOther, TRUE, TRUE, 0, EmptyContent) }

\* The entry under test.
CandidateEntries ==
    { Entry(n, r, FALSE, sz, st) :
        n \in {NameExact, NameNested}, r \in BOOLEAN, sz \in DeclaredSizes, st \in Streams }
    \cup { Entry(NameBackslash, TRUE, FALSE, 1, Content(<<1>>, 0)) }

\* An entry after it that carries the executable's exact name.
TrailingEntries == { Entry(NameExact, TRUE, FALSE, 1, Content(<<2>>, 0)) }

OptionalEntry(S) == {<<>>} \cup {<<e>> : e \in S}

ExtractArchives ==
    { lead \o cand \o trail :
        lead \in SeqsUpTo(LeadingEntries, MaxLeading),
        cand \in OptionalEntry(CandidateEntries),
        trail \in OptionalEntry(TrailingEntries) }

InitExtract ==
    /\ goos = "posix"
    /\ intBits = 64
    /\ parentDirs = <<"">>
    /\ archiveFormat = ""
    /\ archive = <<>>
    /\ expectedSHA256 = <<>>
    /\ pc = "idle"
    /\ InitRun
    /\ pathObj = Missing
    /\ tmpPathObj = "T1"
    /\ meta = [o \in Objs |-> [uid |-> EffectiveUid, perm |-> Perm0700]]
    /\ swapsLeft = 0
    /\ entries = {}
    /\ fsOps = {}
    /\ InitParent
    /\ InitProc
    /\ InitIdleChecksum
    /\ InitIdleEnv
    /\ InitIdleFallback
    /\ InitIdleMain
    /\ InitIdleEngine
    /\ InitIdlePodmanArgs
    /\ InitIdleZipSize
    /\ InitIdlePrepare
    /\ exFormat \in {"tar.gz", "zip"}
    /\ exArchive \in ExtractArchives
    /\ exOutBefore \in {AbsentFile, OldContent}
    /\ exOut = exOutBefore
    /\ exEnv = NoFailure
    /\ exResult = Pending
    /\ exCopied = 0
    /\ exConsumed = 0
    /\ exPath = ""

\* One call of the extractor from materializeBundledServerBinary, which
\* hands out binaryPath only when the extractor returned nil.
ExtractDone(env, o) ==
    /\ exEnv' = env
    /\ exResult' = o.err
    /\ exOut' = o.out
    /\ exCopied' = o.copied
    /\ exConsumed' = o.consumed
    /\ exPath' = IF o.err = Nil THEN "binaryPath" ELSE ""
    /\ UNCHANGED <<buildVars, runVars, fsVars, parentVars, releaseVars, procVars, ckVars,
                   envVars, fbVars, mainVars, engVars, paVars, zsVars, prVars, exFormat, exArchive, exOutBefore>>

ExtractTarGz ==
    /\ exResult = Pending
    /\ exFormat = "tar.gz"
    /\ \E env \in ExtractEnvs : ExtractDone(env, extractTarGzExecutable(exArchive, exOut, env))

ExtractZip ==
    /\ exResult = Pending
    /\ exFormat = "zip"
    /\ \E env \in ExtractEnvs : ExtractDone(env, extractZipExecutable(exArchive, exOut, env))

NextExtract ==
    \/ ExtractTarGz
    \/ ExtractZip

SpecExtract == InitExtract /\ [][NextExtract]_vars

\* -------------------------------------------------------- child environment
\* An environment string is a sequence of pieces; "=" is the piece that
\* separates key and value, LineBreak and NulByte are the control
\* characters.
Eq == "="
LineBreak == "\n"
NulByte == "NUL"

allowedParentEnvKeys ==
    << "PATH", "HOME", "USERPROFILE", "TMPDIR", "TMP", "TEMP", "SHELL", "COMSPEC",
       "SYSTEMROOT", "WINDIR", "HTTP_PROXY", "HTTPS_PROXY", "NO_PROXY", "ALL_PROXY",
       "http_proxy", "https_proxy", "no_proxy", "all_proxy", "SSL_CERT_FILE",
       "SSL_CERT_DIR" >>

optionalEnvVars ==
    << "GITHUB_TOOLSETS", "GITHUB_TOOLS", "GITHUB_DYNAMIC_TOOLSETS", "GITHUB_READ_ONLY",
       "GITHUB_LOCKDOWN_MODE" >>

\* strings.Cut(item, "="): the split at the first "=".
RECURSIVE IndexOfEq(_, _)
IndexOfEq(item, i) ==
    IF i > Len(item) THEN 0
    ELSE IF item[i] = Eq THEN i
    ELSE IndexOfEq(item, i + 1)

Cut(item) ==
    LET i == IndexOfEq(item, 1)
    IN  IF i = 0 THEN [key |-> item, value |-> <<>>, ok |-> FALSE]
        ELSE [key |-> SubSeq(item, 1, i - 1), value |-> SubSeq(item, i + 1, Len(item)),
              ok |-> TRUE]

\* The parent process environment: os.LookupEnv and os.Getenv.
Unset == [set |-> FALSE, val |-> <<>>]
Set(v) == [set |-> TRUE, val |-> v]
LookupEnv(parent, key) == IF key \in DOMAIN parent THEN parent[key] ELSE Unset
Getenv(parent, key) == LookupEnv(parent, key).val

\* merged and order together: the pairs in order of first insertion.
HasKey(acc, key) == \E i \in 1..Len(acc) : acc[i].key = key

\* (variant: a key that is set again moves to the end of the order)
addMutant(acc, key, value) ==
    Append(SelectSeq(acc, LAMBDA e : e.key # key), [key |-> key, value |-> value])

add(acc, key, value) ==
    IF HasKey(acc, key)
    THEN [i \in 1..Len(acc) |->
            IF acc[i].key = key THEN [key |-> key, value |-> value] ELSE acc[i]]
    ELSE Append(acc, [key |-> key, value |-> value])

\* The loop over required.
RECURSIVE AddRequired(_, _)
AddRequired(acc, required) ==
    IF required = <<>> THEN acc
    ELSE LET c == Cut(Head(required))
         IN  IF ~c.ok \/ c.key = <<>>
             THEN AddRequired(acc, Tail(required))
             ELSE AddRequired(add(acc, c.key, c.value), Tail(required))

\* One round of the loop over allowedParentEnvKeys.
\* (variant: a key that is already there is not skipped)
AddParentKeyMutant(acc, key, parent) ==
    IF LookupEnv(parent, key).set THEN add(acc, <<key>>, LookupEnv(parent, key).val)
    ELSE acc

AddParentKey(acc, key, parent) ==
    IF HasKey(acc, <<key>>) THEN acc
    ELSE IF LookupEnv(parent, key).set THEN add(acc, <<key>>, LookupEnv(parent, key).val)
    ELSE acc

RECURSIVE AddParent(_, _, _)
AddParent(acc, keys, parent) ==
    IF keys = <<>> THEN acc
    ELSE AddParent(AddParentKey(acc, Head(keys), parent), Tail(keys), parent)

buildChildProcessEnv(required, parent) ==
    LET acc == AddParent(AddRequired(<<>>, required), allowedParentEnvKeys, parent)
    IN  [i \in 1..Len(acc) |-> acc[i].key \o <<Eq>> \o acc[i].value]

\* runWithRunner: the required list made of the credentials and of the
\* optional variables that are set and not empty in the parent.
RECURSIVE OptionalItems(_, _)
OptionalItems(names, parent) ==
    IF names = <<>> THEN <<>>
    ELSE (IF Getenv(parent, Head(names)) # <<>>
          THEN << <<Head(names), Eq>> \o Getenv(parent, Head(names)) >>
          ELSE <<>>) \o OptionalItems(Tail(names), parent)

RequiredEnv(token, host, parent) ==
    << <<"GITHUB_PERSONAL_ACCESS_TOKEN", Eq>> \o token, <<"GITHUB_HOST", Eq>> \o host >>
        \o OptionalItems(optionalEnvVars, parent)

\* ------------------------------------------------------------------ SpecEnv
\* Values of environment variables and credentials.
PlainA == <<"a">>
PlainB == <<"b">>
WithLineBreak == <<"a", LineBreak, "b">>
WithNul == <<"a", NulByte>>
WithEq == <<"a", Eq, "b">>

ParentEnvs ==
    [ {"PATH", "HTTPS_PROXY", "SECRET_SHOULD_NOT_PASS", "GITHUB_TOOLSETS"} ->
        {Unset, Set(PlainA), Set(PlainB), Set(<<>>), Set(WithLineBreak), Set(WithNul)} ]

ParentEnvInputs ==
    { p \in ParentEnvs :
        /\ p["PATH"] \in {Unset, Set(PlainA), Set(PlainB)}
        /\ p["HTTPS_PROXY"] \in {Unset, Set(PlainA), Set(<<>>)}
        /\ p["SECRET_SHOULD_NOT_PASS"] \in {Unset, Set(PlainA), Set(PlainB)} }

\* Required lists handed to buildChildProcessEnv directly: with a key the
\* parent also has, an item without "=", an item with an empty key, a value
\* that holds "=", a key that comes twice.
DirectRequired ==
    { <<>>,
      << <<"PATH", Eq>> \o PlainA, <<"GITHUB_HOST", Eq>> \o PlainA, <<"MALFORMED">>,
         <<"PATH", Eq>> \o PlainB >>,
      << <<"GITHUB_HOST", Eq>> \o PlainA, <<"PATH", Eq>> \o PlainB, <<"MALFORMED">> >>,
      << <<"PATH", Eq>> \o PlainA >>,
      << <<Eq>> \o PlainA, <<"HTTPS_PROXY", Eq>> \o WithEq >>,
      << <<"SECRET_SHOULD_NOT_PASS", Eq>> \o PlainB, <<"PATH", Eq>> >> }

InitEnv ==
    /\ goos = "posix"
    /\ intBits = 64
    /\ parentDirs = <<"">>
    /\ archiveFormat = ""
    /\ archive = <<>>
    /\ expectedSHA256 = <<>>
    /\ pc = "idle"
    /\ InitRun
    /\ pathObj = Missing
    /\ tmpPathObj = "T1"
    /\ meta = [o \in Objs |-> [uid |-> EffectiveUid, perm |-> Perm0700]]
    /\ swapsLeft = 0
    /\ entries = {}
    /\ fsOps = {}
    /\ InitParent
    /\ InitProc
    /\ InitIdleChecksum
    /\ InitIdleExtract
    /\ InitIdleFallback
    /\ InitIdleMain
    /\ InitIdleEngine
    /\ InitIdlePodmanArgs
    /\ InitIdleZipSize
    /\ InitIdlePrepare
    /\ envParent \in ParentEnvInputs
    /\ \/ /\ envPc = "prepare"
          /\ envToken \in {PlainA, WithLineBreak}
          /\ envHost \in {PlainB, WithNul, WithEq}
          /\ envRequired = <<>>
       \/ /\ envPc = "build"
          /\ envToken = <<>>
          /\ envHost = <<>>
          /\ envRequired \in DirectRequired
    /\ envChild = <<>>
    /\ envStart = "none"

\* runWithRunner: "3. Prepare environment".
PrepareEnv ==
    /\ envPc = "prepare"
    /\ envRequired' = RequiredEnv(envToken, envHost, envParent)
    /\ envPc' = "build"
    /\ UNCHANGED <<buildVars, runVars, fsVars, parentVars, releaseVars, procVars, ckVars,
                   exVars, fbVars, mainVars, engVars, paVars, zsVars, prVars, envToken, envHost, envParent, envChild, envStart>>

\* cmd.Env = buildChildProcessEnv(env)
BuildEnv ==
    /\ envPc = "build"
    /\ envChild' = buildChildProcessEnv(envRequired, envParent)
    /\ envPc' = "start"
    /\ UNCHANGED <<buildVars, runVars, fsVars, parentVars, releaseVars, procVars, ckVars,
                   exVars, fbVars, mainVars, engVars, paVars, zsVars, prVars, envToken, envHost, envParent, envRequired, envStart>>

HasPiece(item, piece) == \E i \in 1..Len(item) : item[i] = piece

\* cmd.Start(): os/exec refuses an environment entry that holds a NUL
\* byte; anything else goes to the operating system, which starts the
\* child or fails.
StartWithEnv ==
    /\ envPc = "start"
    /\ IF \E i \in 1..Len(envChild) : HasPiece(envChild[i], NulByte)
       THEN envStart' = "failed"
       ELSE envStart' \in {"started", "failed"}
    /\ envPc' = "done"
    /\ UNCHANGED <<buildVars, runVars, fsVars, parentVars, releaseVars, procVars, ckVars,
                   exVars, fbVars, mainVars, engVars, paVars, zsVars, prVars, envToken, envHost, envParent, envRequired, envChild>>

NextEnv ==
    \/ PrepareEnv
    \/ BuildEnv
    \/ StartWithEnv

SpecEnv == InitEnv /\ [][NextEnv]_vars

\* ------------------------------------------------------------ SpecFallback
\* createTempDirWithFallback on any list of candidate parents, each call of
\* createTempDir seen only by its result.
CandidateDirs == {"", "cache", "alt"}
CandidateLists ==
    SeqsUpTo(CandidateDirs, MaxCandidates)
        \cup {bundledServerTempParentDirs(ok) : ok \in BOOLEAN}

\* The errors createTempDir can return for a candidate.
CreateTempDirErrors(parentDir) ==
    IF parentDir = "" THEN {"MkdirTempFailed"}
    ELSE {"InsecureParent", "MkdirFailed"}

InitFallback ==
    /\ goos = "posix"
    /\ intBits = 64
    /\ parentDirs \in CandidateLists
    /\ archiveFormat = PlatformFormat(goos)
    /\ archive = GoodArchive
    /\ expectedSHA256 = GoodSHA
    /\ pc = "fallback"
    /\ InitRun
    /\ pathObj = Missing
    /\ tmpPathObj = "T1"
    /\ meta = [o \in Objs |-> [uid |-> EffectiveUid, perm |-> Perm0700]]
    /\ swapsLeft = 0
    /\ entries = {}
    /\ fsOps = {}
    /\ InitParent
    /\ InitProc
    /\ InitIdleChecksum
    /\ InitIdleExtract
    /\ InitIdleEnv
    /\ InitIdleFallback
    /\ InitIdleMain
    /\ InitIdleEngine
    /\ InitIdlePodmanArgs
    /\ InitIdleZipSize
    /\ InitIdlePrepare

\* One round of the loop: createTempDir(parentDir) and what follows it.
FallbackTry ==
    /\ pc = "fallback"
    /\ candIdx <= Len(Candidates)
    /\ fbTried' = Append(fbTried, Candidates[candIdx])
    /\ \/ /\ fbReturned' = candIdx
          /\ stagingCreated' = TRUE
          /\ cleanupKind' = IF Candidates[candIdx] = "" THEN "system" ELSE "verified"
          /\ pc' = "extract"
          /\ UNCHANGED <<candIdx, attemptErrs, result, cleanupCalls, afterCleanup, stateInfo,
                         lstatInfo, handleInfo, attempt>>
       \/ /\ \E e \in CreateTempDirErrors(Candidates[candIdx]) : CandidateFail(e)
          /\ UNCHANGED fbReturned
    /\ UNCHANGED <<buildVars, fsVars, handleObj, handleSt, closeCount, stagingHome, releaseVars,
                   procVars, ckVars, exVars, envVars, mainVars, engVars, paVars, zsVars, prVars>>

NextFallback ==
    \/ FallbackTry
    \/ FallbackExhausted

SpecFallback == InitFallback /\ [][NextFallback]_vars

\* -------------------------------------------------------------- SpecEngine
\* Engine selection in the container-based runWithRunner.  An error is the
\* set of what errors.Is finds in its chain; nil is the empty set.
NoErr == {}
Is(err, target) == target \in err
Wrap(sentinel, err) == {sentinel} \cup err

engineDocker == "docker"
enginePodman == "podman"
engineAuto == "auto"

InitEngine ==
    /\ goos = "posix"
    /\ intBits = 64
    /\ parentDirs = <<"">>
    /\ archiveFormat = PlatformFormat(goos)
    /\ archive = GoodArchive
    /\ expectedSHA256 = GoodSHA
    /\ pc = "done"
    /\ InitRun
    /\ pathObj = Missing
    /\ tmpPathObj = "T1"
    /\ meta = [o \in Objs |-> [uid |-> EffectiveUid, perm |-> Perm0700]]
    /\ swapsLeft = 0
    /\ entries = {}
    /\ fsOps = {}
    /\ InitParent
    /\ InitProc
    /\ InitIdleChecksum
    /\ InitIdleExtract
    /\ InitIdleEnv
    /\ InitIdleFallback
    /\ InitIdleMain
    /\ InitIdlePodmanArgs
    /\ InitIdleZipSize
    /\ InitIdlePrepare
    /\ engine \in {engineDocker, enginePodman, engineAuto}
    /\ engPc = "switch"
    /\ engTried = <<>>
    /\ dockerErr = {"pending"}
    /\ socketErr = {"pending"}
    /\ hostsLeft = 0
    /\ lastErr = NoErr
    /\ openClients = 0
    /\ engErr = {"pending"}

EngineIdle == <<buildVars, runVars, fsVars, parentVars, releaseVars, procVars, ckVars,
                exVars, envVars, fbVars, mainVars, paVars, zsVars, prVars, engine>>

\* runWithRunner returns err.
EngineReturn(err) ==
    /\ engErr' = err
    /\ engPc' = "done"

\* switch opts.engine
EngineSwitch ==
    /\ engPc = "switch"
    /\ IF engine \in {engineDocker, engineAuto}
       THEN /\ engPc' = "docker"
            /\ engTried' = Append(engTried, "docker")
       ELSE /\ engPc' = "podman"
            /\ engTried' = Append(engTried, "podmanSocket")
    /\ UNCHANGED <<EngineIdle, dockerErr, socketErr, hostsLeft, lastErr, openClients, engErr>>

\* errors.Is(err, ErrDockerUnavailable) in the auto branch
\* (variant: any failure of the Docker path falls back)
FallsBackToPodmanMutant(err) == err # NoErr

FallsBackToPodman(err) == Is(err, "DockerUnavailable")

\* runDocker returned err (its deferred cli.Close has run): the rest of
\* the docker and auto branches.
DockerReturn(err) ==
    /\ dockerErr' = err
    /\ IF engine = engineAuto /\ err # NoErr /\ FallsBackToPodman(err)
       THEN /\ engPc' = "podman"
            /\ engTried' = Append(engTried, "podmanSocket")
            /\ UNCHANGED engErr
       ELSE /\ EngineReturn(err)
            /\ UNCHANGED engTried

\* r.newDockerClient()
RunDockerClient ==
    /\ engPc = "docker"
    /\ \/ /\ DockerReturn({"ClientFailed"})
          /\ UNCHANGED openClients
       \/ /\ engPc' = "dockerping"
          /\ openClients' = openClients + 1
          /\ UNCHANGED <<dockerErr, engTried, engErr>>
    /\ UNCHANGED <<EngineIdle, socketErr, hostsLeft, lastErr>>

\* cli.Ping(pingCtx)
RunDockerPing ==
    /\ engPc = "dockerping"
    /\ \/ /\ DockerReturn(Wrap("DockerUnavailable", {"PingFailed"}))
          /\ openClients' = openClients - 1
       \/ /\ engPc' = "dockerimage"
          /\ UNCHANGED <<dockerErr, engTried, engErr, openClients>>
    /\ UNCHANGED <<EngineIdle, socketErr, hostsLeft, lastErr>>

\* r.ensureImage, then r.runContainer
RunDockerContainer ==
    /\ engPc = "dockerimage"
    /\ \E err \in {{"ImageFailed"}, {"ContainerNonZeroExit"}, {"ContainerFailed"}, NoErr} :
          DockerReturn(err)
    /\ openClients' = openClients - 1
    /\ UNCHANGED <<EngineIdle, socketErr, hostsLeft, lastErr>>

\* runPodmanSocket returned err: the rest of runPodman.
SocketReturn(err) ==
    /\ socketErr' = err
    /\ IF err = NoErr \/ ~Is(err, "PodmanSocketUnavailable")
       THEN /\ EngineReturn(err)
            /\ UNCHANGED engTried
       ELSE /\ engPc' = "podmancli"
            /\ engTried' = Append(engTried, "podmanCLI")
            /\ UNCHANGED engErr

\* newPodmanDockerClient: the candidate list
PodmanCandidates ==
    /\ engPc = "podman"
    /\ \E n \in 0..MaxHosts :
          /\ hostsLeft' = n
          /\ IF n = 0
             THEN SocketReturn({"PodmanSocketUnavailable"})
             ELSE /\ engPc' = "podmanhost"
                  /\ UNCHANGED <<engTried, engErr, socketErr>>
    /\ lastErr' = NoErr
    /\ UNCHANGED <<EngineIdle, dockerErr, openClients>>

\* newPodmanDockerClient: one candidate, or the end of the list
PodmanHost ==
    /\ engPc = "podmanhost"
    /\ IF hostsLeft = 0
       THEN /\ SocketReturn(IF lastErr # NoErr THEN Wrap("PodmanSocketUnavailable", lastErr)
                            ELSE {"PodmanSocketUnavailable"})
            /\ UNCHANGED <<hostsLeft, lastErr, openClients>>
       ELSE \/ /\ \E e \in {{"ClientFailed"}, {"PingFailed"}} : lastErr' = e
               /\ hostsLeft' = hostsLeft - 1
               /\ UNCHANGED <<engPc, engTried, engErr, openClients, socketErr>>
            \/ /\ engPc' = "podmanimage"
               /\ openClients' = openClients + 1
               /\ UNCHANGED <<hostsLeft, lastErr, engTried, engErr, socketErr>>
    /\ UNCHANGED <<EngineIdle, dockerErr>>

\* runPodmanSocket: r.ensureImage, then r.runContainer on the socket client
PodmanSocketContainer ==
    /\ engPc = "podmanimage"
    /\ \E err \in {{"ImageFailed"}, {"ContainerNonZeroExit"}, {"ContainerFailed"}, NoErr} :
          SocketReturn(err)
    /\ openClients' = openClients - 1
    /\ UNCHANGED <<EngineIdle, dockerErr, hostsLeft, lastErr>>

\* r.podmanEnsureImageCLI, then r.podmanRunCLI
PodmanCLI ==
    /\ engPc = "podmancli"
    /\ \E err \in {{"PodmanUnavailable"}, {"PullFailed"}, {"ContainerNonZeroExit"},
                   {"PodmanRunFailed"}, NoErr} :
          EngineReturn(err)
    /\ UNCHANGED <<EngineIdle, engTried, dockerErr, socketErr, hostsLeft, lastErr, openClients>>

NextEngine ==
    \/ EngineSwitch
    \/ RunDockerClient
    \/ RunDockerPing
    \/ RunDockerContainer
    \/ PodmanCandidates
    \/ PodmanHost
    \/ PodmanSocketContainer
    \/ PodmanCLI

SpecEngine == InitEngine /\ [][NextEngine]_vars

\* ---------------------------------------------------------- SpecPodmanArgs
\* buildPodmanRunArgs(env, imageName, containerName).  A string is a
\* sequence of pieces as in the child environment.
\* (variant: the whole entry is handed to --env)
PodmanEnvArgMutant(key, value) == << <<"--env">>, key \o <<Eq>> \o value >>

PodmanEnvArg(key, value) == << <<"--env">>, key >>

InvalidEnvEntry == Err("InvalidEnvEntry")

RECURSIVE PodmanEnvLoop(_, _, _)
PodmanEnvLoop(env, args, cmdEnv) ==
    IF env = <<>> THEN [args |-> args, cmdEnv |-> cmdEnv, err |-> Nil]
    ELSE LET c == Cut(Head(env))
         IN  IF ~c.ok \/ c.key = <<>>
             THEN [args |-> <<>>, cmdEnv |-> <<>>, err |-> InvalidEnvEntry]
             ELSE PodmanEnvLoop(Tail(env), args \o PodmanEnvArg(c.key, c.value),
                                Append(cmdEnv, c.key \o <<Eq>> \o c.value))

buildPodmanRunArgs(env, imageName, containerName) ==
    LET r == PodmanEnvLoop(env,
                 << <<"run">>, <<"--rm">>, <<"-i">>, <<"--name">>, containerName,
                    <<"--pull=never">> >>, <<>>)
    IN  IF r.err # Nil THEN r
        ELSE [r EXCEPT !.args = r.args \o <<imageName, <<"stdio">> >>]

\* Inputs: well-formed entries over two keys and four values (one holding
\* "=", one empty), an entry without "=", entries with an empty key.
SecretPieces == {"s1", "s2"}
PodmanKeys == {<<"GITHUB_PERSONAL_ACCESS_TOKEN">>, <<"GITHUB_HOST">>}
PodmanValues == {<<"s1">>, <<"s2">>, <<"s1", Eq, "s2">>, <<>>}
PodmanEntries ==
    {k \o <<Eq>> \o v : k \in PodmanKeys, v \in PodmanValues}
        \cup {<<"MALFORMED">>}
        \cup {<<Eq>> \o v : v \in {<<"s1">>, <<"s2">>}}
PodmanEnvLists == SeqsUpTo(PodmanEntries, MaxEnvEntries)
TestImage == <<"ghcr.io/example/image:latest">>
TestContainer == <<"test-container">>

\* Two lists differ only in values when they have the same length and, at
\* every position, the same key part and the same presence of "=".
SameKeys(a, b) ==
    /\ Len(a) = Len(b)
    /\ \A i \in 1..Len(a) : Cut(a[i]).key = Cut(b[i]).key /\ Cut(a[i]).ok = Cut(b[i]).ok

InitPodmanArgs ==
    /\ goos = "posix"
    /\ intBits = 64
    /\ parentDirs = <<"">>
    /\ archiveFormat = PlatformFormat(goos)
    /\ archive = GoodArchive
    /\ expectedSHA256 = GoodSHA
    /\ pc = "done"
    /\ InitRun
    /\ pathObj = Missing
    /\ tmpPathObj = "T1"
    /\ meta = [o \in Objs |-> [uid |-> EffectiveUid, perm |-> Perm0700]]
    /\ swapsLeft = 0
    /\ entries = {}
    /\ fsOps = {}
    /\ InitParent
    /\ InitProc
    /\ InitIdleChecksum
    /\ InitIdleExtract
    /\ InitIdleEnv
    /\ InitIdleFallback
    /\ InitIdleMain
    /\ InitIdleEngine
    /\ InitIdleZipSize
    /\ InitIdlePrepare
    /\ paPc = "call"
    /\ paEnvA \in PodmanEnvLists
    /\ paEnvB \in {b \in PodmanEnvLists : SameKeys(paEnvA, b)}
    /\ paOutA = [args |-> <<>>, cmdEnv |-> <<>>, err |-> Pending]
    /\ paOutB = [args |-> <<>>, cmdEnv |-> <<>>, err |-> Pending]

BuildPodmanRunArgs ==
    /\ paPc = "call"
    /\ paOutA' = buildPodmanRunArgs(paEnvA, TestImage, TestContainer)
    /\ paOutB' = buildPodmanRunArgs(paEnvB, TestImage, TestContainer)
    /\ paPc' = "done"
    /\ UNCHANGED <<buildVars, runVars, fsVars, parentVars, releaseVars, procVars, ckVars,
                   exVars, envVars, fbVars, mainVars, engVars, zsVars, prVars, paEnvA,
                   paEnvB>>

NextPodmanArgs == BuildPodmanRunArgs

SpecPodmanArgs == InitPodmanArgs /\ [][NextPodmanArgs]_vars

\* ------------------------------------------------------------- SpecZipSize
\* fileInArchive.UncompressedSize64 is a uint64, held here as four 16-bit
\* limbs, most significant first.  int64(size) keeps the 64-bit pattern:
\* with the top bit set it is negative.  Values beyond 32 bits are held by
\* the nearest value of the same sign that fits, which compares alike with
\* 0 and with maxBundledExecutableBytes.
Int64Of(u) ==
    IF u[1] >= 32768
    THEN IF u[1] = 65535 /\ u[2] = 65535 /\ u[3] = 65535 THEN u[4] - 65536
         ELSE -65537
    ELSE IF u[1] = 0 /\ u[2] = 0 /\ u[3] < 32768 THEN u[3] * 65536 + u[4]
         ELSE 2147483647

\* Sizes around 0, 64 MiB, 2^31, 2^32, 2^63 and 2^64.
ZipSizes ==
    { <<a, b, c, d>> :
        a \in {0, 1, 32767, 32768, 65535}, b \in {0, 1, 65535},
        c \in {0, 1023, 1024, 1025, 32767, 32768, 65535}, d \in {0, 1, 65535} }

InitZipSize ==
    /\ goos = "windows"
    /\ intBits = 64
    /\ parentDirs = <<"">>
    /\ archiveFormat = ""
    /\ archive = <<>>
    /\ expectedSHA256 = <<>>
    /\ pc = "idle"
    /\ InitRun
    /\ pathObj = Missing
    /\ tmpPathObj = "T1"
    /\ meta = [o \in Objs |-> [uid |-> EffectiveUid, perm |-> Perm0700]]
    /\ swapsLeft = 0
    /\ entries = {}
    /\ fsOps = {}
    /\ InitParent
    /\ InitProc
    /\ InitIdleChecksum
    /\ InitIdleExtract
    /\ InitIdleEnv
    /\ InitIdleFallback
    /\ InitIdleMain
    /\ InitIdleEngine
    /\ InitIdlePodmanArgs
    /\ InitIdlePrepare
    /\ zsSize \in ZipSizes
    /\ zsResult = Pending

\* validateZipExecutableSize(fileInArchive.UncompressedSize64, executableName)
ValidateZipSize ==
    /\ zsResult = Pending
    /\ zsResult' = validateZipExecutableSize(Int64Of(zsSize))
    /\ UNCHANGED <<buildVars, runVars, fsVars, parentVars, releaseVars, procVars, ckVars,
                   exVars, envVars, fbVars, mainVars, engVars, paVars, prVars, zsSize>>

NextZipSize == ValidateZipSize

SpecZipSize == InitZipSize /\ [][NextZipSize]_vars

\* ------------------------------------------------------------- SpecPrepare
\* scripts/prepare: two of the release assets and the checksums asset.  A
\* file is held by the SHA-256 of its content, or "absent".
assets == <<"github-mcp-server_Linux_x86_64.tar.gz", "github-mcp-server_Windows_x86_64.zip">>
checksumsAsset == "checksums.txt"
AssetNames == {assets[i] : i \in 1..Len(assets)}
PrepareFiles == AssetNames \cup {checksumsAsset}
NoFiles == [n \in PrepareFiles |-> "absent"]

\* verifyAssetChecksum; actual is the result of sha256File, "unreadable"
\* when it failed.
\* (variant: an asset the checksums file does not list is let through)
verifyAssetChecksumMutant(checksums, assetName, actual) ==
    IF checksums[assetName] = "absent" THEN Nil
    ELSE IF actual = "unreadable" THEN Err("HashFailed")
    ELSE IF actual # checksums[assetName] THEN Err("ChecksumMismatch")
    ELSE Nil

verifyAssetChecksum(checksums, assetName, actual) ==
    IF checksums[assetName] = "absent" THEN Err("ChecksumNotFound")
    ELSE IF actual = "unreadable" THEN Err("HashFailed")
    ELSE IF actual # checksums[assetName] THEN Err("ChecksumMismatch")
    ELSE Nil

InitPrepare ==
    /\ goos = "posix"
    /\ intBits = 64
    /\ parentDirs = <<"">>
    /\ archiveFormat = ""
    /\ archive = <<>>
    /\ expectedSHA256 = <<>>
    /\ pc = "idle"
    /\ InitRun
    /\ pathObj = Missing
    /\ tmpPathObj = "T1"
    /\ meta = [o \in Objs |-> [uid |-> EffectiveUid, perm |-> Perm0700]]
    /\ swapsLeft = 0
    /\ entries = {}
    /\ fsOps = {}
    /\ InitParent
    /\ InitProc
    /\ InitIdleChecksum
    /\ InitIdleExtract
    /\ InitIdleEnv
    /\ InitIdleFallback
    /\ InitIdleMain
    /\ InitIdleEngine
    /\ InitIdlePodmanArgs
    /\ InitIdleZipSize
    /\ prPc = "start"
    /\ prIdx = 1
    /\ prBundledBefore \in [PrepareFiles -> {"absent", "old"}]
    /\ prBundled = prBundledBefore
    /\ prStagingDir = FALSE
    /\ prStaged = NoFiles
    /\ prAttested = "none"
    /\ prChecksums = [a \in AssetNames |-> "absent"]
    /\ prErr = Pending

PrepareIdle == <<buildVars, runVars, fsVars, parentVars, releaseVars, procVars, ckVars, exVars,
                 envVars, fbVars, mainVars, engVars, paVars, zsVars, prBundledBefore>>

\* A return of run: the deferred os.RemoveAll(stagingDir) runs when the
\* staging directory was made.
PrepareReturn(e) ==
    /\ prErr' = e
    /\ prPc' = "done"
    /\ prStagingDir' = FALSE
    /\ prStaged' = NoFiles

\* parseArgs, resolveVersion, -check, the retry settings, gh.Path,
\* ensureGHAuth, os.MkdirAll(bundledDirName) and os.MkdirTemp.
PrepareStart ==
    /\ prPc = "start"
    /\ \/ \E k \in {"Usage", "CheckFailed", "GHNotInstalled", "GHAuthRequired", "MkdirFailed"} :
             /\ PrepareReturn(Err(k))
       \/ PrepareReturn(Nil)
       \/ /\ prStagingDir' = TRUE
          /\ prPc' = "checksums"
          /\ UNCHANGED <<prErr, prStaged>>
    /\ UNCHANGED <<PrepareIdle, prIdx, prBundled, prAttested, prChecksums>>

\* runWithRetry(downloadReleaseAsset(checksumsAsset)): gh release download
\* into the staging directory, or the error after the last attempt.
DownloadChecksums ==
    /\ prPc = "checksums"
    /\ \/ PrepareReturn(Err("DownloadFailed"))
       \/ /\ prStaged' = [prStaged EXCEPT ![checksumsAsset] = "sums"]
          /\ prPc' = "attest"
          /\ UNCHANGED <<prErr, prStagingDir>>
    /\ UNCHANGED <<PrepareIdle, prIdx, prBundled, prAttested, prChecksums>>

\* runWithRetry(verifyReleaseAssetAttestation(checksumsFile))
VerifyAttestation ==
    /\ prPc = "attest"
    /\ \/ /\ prAttested' = "failed"
          /\ PrepareReturn(Err("AttestationFailed"))
       \/ /\ prAttested' = "ok"
          /\ prPc' = "load"
          /\ UNCHANGED <<prErr, prStagingDir, prStaged>>
    /\ UNCHANGED <<PrepareIdle, prIdx, prBundled, prChecksums>>

\* loadChecksums(checksumsFile): the digest the file lists for each asset.
LoadChecksums ==
    /\ prPc = "load"
    /\ \/ /\ PrepareReturn(Err("ReadChecksumsFailed"))
          /\ UNCHANGED prChecksums
       \/ /\ prChecksums' \in [AssetNames -> {"d1", "absent"}]
          /\ prPc' = "download"
          /\ UNCHANGED <<prErr, prStagingDir, prStaged>>
    /\ UNCHANGED <<PrepareIdle, prIdx, prBundled, prAttested>>

\* One round of the first loop over assets: download into the staging
\* directory, then verifyAssetChecksum on the staged file.
DownloadAndVerifyAsset ==
    /\ prPc = "download"
    /\ \/ /\ PrepareReturn(Err("DownloadFailed"))
          /\ UNCHANGED prIdx
       \/ \E content \in {"d1", "d2"}, actual \in {"read", "unreadable"} :
             LET d == IF actual = "read" THEN content ELSE "unreadable"
                 e == verifyAssetChecksum(prChecksums, assets[prIdx], d)
             IN  IF e # Nil
                 THEN /\ PrepareReturn(e)
                      /\ UNCHANGED prIdx
                 ELSE /\ prStaged' = [prStaged EXCEPT ![assets[prIdx]] = content]
                      /\ prIdx' = IF prIdx = Len(assets) THEN 1 ELSE prIdx + 1
                      /\ prPc' = IF prIdx = Len(assets) THEN "promote" ELSE "download"
                      /\ UNCHANGED <<prErr, prStagingDir>>
    /\ UNCHANGED <<PrepareIdle, prBundled, prAttested, prChecksums>>

\* promoteStagedAsset: os.Remove(dst), then os.Rename(src, dst).
promoteStagedAsset(assetName, removeOk, renameOk) ==
    IF ~removeOk THEN [err |-> Err("RemoveFailed"), bundled |-> prBundled, staged |-> prStaged]
    ELSE IF ~renameOk
    THEN [err |-> Err("RenameFailed"),
          bundled |-> [prBundled EXCEPT ![assetName] = "absent"], staged |-> prStaged]
    ELSE [err |-> Nil,
          bundled |-> [prBundled EXCEPT ![assetName] = prStaged[assetName]],
          staged |-> [prStaged EXCEPT ![assetName] = "absent"]]

\* One round of the second loop over assets.
PromoteAsset ==
    /\ prPc = "promote"
    /\ \E removeOk, renameOk \in BOOLEAN :
          LET r == promoteStagedAsset(assets[prIdx], removeOk, renameOk)
          IN  /\ prBundled' = r.bundled
              /\ IF r.err # Nil
                 THEN /\ PrepareReturn(r.err)
                      /\ UNCHANGED prIdx
                 ELSE /\ prStaged' = r.staged
                      /\ prIdx' = IF prIdx = Len(assets) THEN 1 ELSE prIdx + 1
                      /\ prPc' = IF prIdx = Len(assets) THEN "promotesums" ELSE "promote"
                      /\ UNCHANGED <<prErr, prStagingDir>>
    /\ UNCHANGED <<PrepareIdle, prAttested, prChecksums>>

\* promoteStagedAsset(stagingDir, bundledDirName, checksumsAsset) and the
\* return of run.
PromoteChecksums ==
    /\ prPc = "promotesums"
    /\ \E removeOk, renameOk \in BOOLEAN :
          LET r == promoteStagedAsset(checksumsAsset, removeOk, renameOk)
          IN  /\ prBundled' = r.bundled
              /\ PrepareReturn(r.err)
    /\ UNCHANGED <<PrepareIdle, prIdx, prAttested, prChecksums>>

NextPrepare ==
    \/ PrepareStart
    \/ DownloadChecksums
    \/ VerifyAttestation
    \/ LoadChecksums
    \/ DownloadAndVerifyAsset
    \/ PromoteAsset
    \/ PromoteChecksums

SpecPrepare == InitPrepare /\ [][NextPrepare]_vars

\* ================================================================== claims
\* C1: when waitForServerExit has returned, on any path, the child has ended
\* and the waiter has delivered its exit, which the supervisor has received;
\* the run never ends with the child still running.
C1_ChildReapedOnReturn ==
    /\ waitReturned => (childState = "exited" /\ waiterPc = "done" /\ waitErr # Pending)
    /\ pc = "done" => childState # "running"

\* The supervisor returned after a force-kill.
C1_Witness ==
    /\ waitReturned
    /\ Len(signals) > 0
    /\ signals[Len(signals)] = "kill"
    /\ childState = "exited"

\* C2: if the context is already cancelled when waitForServerExit receives
\* the child's exit from the channel, it returns nil whatever the exit was.
C2_CancelSuppressesExitError ==
    (waitReturned /\ ctxAtObserve = "cancelled") => afterCleanup = Nil

\* The exit arrived through the outer select (no signal was sent), it was a
\* failure, and the context was cancelled by then.
C2_Witness ==
    /\ waitReturned
    /\ ctxAtObserve = "cancelled"
    /\ signals = <<>>
    /\ waitErr # Nil

\* C3: once createTempDir has handed out a staging directory, its release
\* closure runs exactly once by the time the run has returned, and no
\* release runs when no staging directory was handed out.
C3_ReleaseExactlyOnce ==
    /\ cleanupCalls <= 1
    /\ cleanupCalls = 1 => stagingCreated
    /\ pc = "done" => cleanupCalls = (IF stagingCreated THEN 1 ELSE 0)

\* The run returned an extraction failure after the staging directory
\* existed.
C3_Witness ==
    /\ pc = "done"
    /\ stagingCreated
    /\ result.kind = "TooLarge"
    /\ cleanupCalls = 1

\* C4 (as claimed): on POSIX, every creation or removal below an established
\* parent lands in the directory of the held handle.
C4_OpsLandInHandleDirectory ==
    goos = "posix" =>
        \A o \in fsOps : o.parent = "verified" => o.dir = handleObj

\* C5 (as claimed): a release deletes only if, when it runs, the parent path
\* still denotes the directory the staging directory was made in (that of
\* the held handle, when one is held).
ReleaseParentIntact ==
    IF cleanupKind = "verified" THEN recheckSaw = handleObj ELSE recheckSaw = stagingHome

C6_EstablishedParentIsSecure ==
    (goos = "posix" /\ pc = "create") =>
        /\ handleSt = "open"
        /\ Kind(handleObj) = "dir"
        /\ meta[handleObj].uid = EffectiveUid
        /\ GroupOtherBits(meta[handleObj].perm) = 0
        /\ stateInfo.id = handleObj
        /\ stateInfo.id = lstatInfo.id

\* C7 (as claimed): with nobody touching the path, a candidate that is a
\* symbolic link or not a directory fails with InsecureParent, and no state
\* or open handle is left.
C7_NonDirectoryIsInsecureParent ==
    (swapsLeft = MaxSwaps /\ Candidates[1] # "" /\ pathObj \in {"LNK", "F"}) =>
        /\ cleanupKind # "verified"
        /\ handleSt # "open"
        /\ stateInfo = NoInfo
        /\ Len(attemptErrs) >= 1 => attemptErrs[1] = "InsecureParent"

\* C8: verifyBundledArchiveChecksum(B, D) is nil exactly when D equals,
\* letter case ignored, the lowercase hex digest of B, and the
\* checksum-mismatch error otherwise.
LowerChar(c) == IF ChUpperA <= c /\ c <= ChUpperZ THEN c + (ChLowerA - ChUpperA) ELSE c

EqualIgnoringCase(s, t) ==
    /\ Len(s) = Len(t)
    /\ \A i \in 1..Len(s) : LowerChar(s[i]) = LowerChar(t[i])

HexDigest(a) == EncodeToString(Sum256(a))

C8_ChecksumIffDigestMatches ==
    ckResult # Pending =>
        /\ ckResult = Nil <=> EqualIgnoringCase(ckExpected, HexDigest(ckArchive))
        /\ ckResult # Nil => ckResult = Err("ChecksumMismatch")

\* An expected digest written with an upper-case letter was accepted.
C8_Witness ==
    /\ ckResult = Nil
    /\ \E i \in 1..Len(ckExpected) : ckExpected[i] # LowerChar(ckExpected[i])

\* C9: when no asset exists for the platform or the checksum does not
\* match, materializeBundledServerBinary fails with that error before any
\* parent directory, staging directory or extraction work.
AssetAbsent == archiveFormat = "" \/ archive = <<>>

C9_ChecksumBeforeExtraction ==
    (AssetAbsent \/ ~EqualIgnoringCase(expectedSHA256, HexDigest(archive))) =>
        /\ pc \in {"start", "done"}
        /\ fsOps = {}
        /\ entries = {}
        /\ pathObj # "DN"
        /\ handleSt = "none"
        /\ attemptErrs = <<>>
        /\ ~stagingCreated
        /\ pc = "done" =>
              result = Err(IF AssetAbsent THEN "NoBundledServerForPlatform"
                           ELSE "ChecksumMismatch")

\* A present asset with a wrong digest was refused.
C9_Witness ==
    /\ pc = "done"
    /\ ~AssetAbsent
    /\ result = Err("ChecksumMismatch")

\* C10: without cancellation, waitForServerExit returns nil for a nil wait
\* result, the non-zero-exit error carrying the code for an exit error, and
\* a different error for any other wait failure.
C10_ExitNormalization ==
    (waitReturned /\ ~ctxDone) =>
        /\ waitErr = Nil => afterCleanup = Nil
        /\ waitErr.kind = "ExitError" =>
              /\ afterCleanup = [kind |-> "ServerNonZeroExit", code |-> exitStatus]
              /\ exitStatus # 0
        /\ waitErr = WaitOther =>
              /\ afterCleanup.kind = "WaitFailed"
              /\ afterCleanup.kind # "ServerNonZeroExit"

\* The child ended with code 9 and nobody cancelled.
C10_Witness ==
    /\ waitReturned
    /\ ~ctxDone
    /\ afterCleanup = [kind |-> "ServerNonZeroExit", code |-> 9]

\* C11: on POSIX, when the cancellation is taken before the child's exit,
\* the first signal is the interrupt; the kill is sent only after it, once
\* the grace window of serverGracefulShutdownTimeout has run out with no
\* exit received from the channel; after the kill the supervisor returns
\* only with the exit the waiter delivered.
C11_InterruptThenKillAfterGrace ==
    goos = "posix" =>
        /\ pc \in {"grace", "kill", "reap"} => (ctxDone /\ signals # <<>>)
        /\ signals # <<>> => signals[1] = "interrupt"
        /\ Len(signals) >= 2 =>
              (signals = <<"interrupt", "kill">>
                 /\ graceElapsed = serverGracefulShutdownTimeout)
        /\ pc \in {"kill", "reap"} => (waitErr = Pending /\ ~waitReturned)
        /\ pc = "kill" => signals = <<"interrupt">>
        /\ (waitReturned /\ Len(signals) >= 2) =>
              (childState = "exited" /\ waiterPc = "done" /\ waitErr # Pending /\ waitCh = <<>>)

\* On POSIX the child outlived the grace window, was killed, and the
\* supervisor returned.
C11_Witness ==
    /\ goos = "posix"
    /\ signals = <<"interrupt", "kill">>
    /\ graceElapsed = serverGracefulShutdownTimeout
    /\ waitReturned

\* C12: once the context is cancelled while waitForServerExit runs, it
\* eventually returns nil, provided a killed child ends and the goroutines
\* and the timer run.
C12_CancelLeadsToReturn ==
    (ctxDone /\ pc \in {"select", "inner", "stop", "grace", "kill", "reap"})
        ~> (waitReturned /\ afterCleanup = Nil)

\* A child that ignored the interrupt for the whole grace window was killed
\* and reaped, and nil was returned.
C12_Witness ==
    /\ waitReturned
    /\ ctxDone
    /\ afterCleanup = Nil
    /\ exitStatus = SignalExitCode
    /\ graceElapsed = serverGracefulShutdownTimeout

\* C13 (as claimed): on Windows no interrupt is sent, the kill comes after
\* the grace window has been accounted for as on POSIX, and the supervisor
\* returns only with the exit the waiter delivered.
C13_WindowsKillAfterGraceAccounting ==
    goos = "windows" =>
        /\ \A i \in 1..Len(signals) : signals[i] # "interrupt"
        /\ signals # <<>> => graceElapsed = serverGracefulShutdownTimeout
        /\ (waitReturned /\ signals # <<>>) =>
              (childState = "exited" /\ waiterPc = "done" /\ waitErr # Pending)

\* C13 (amended): on Windows, when the cancellation is taken before the
\* child's exit, no interrupt is sent and no grace window is waited: the
\* kill is sent at once, and the supervisor returns only with the exit the
\* waiter delivered.
C13_WindowsKillsAtOnce ==
    goos = "windows" =>
        /\ signals \in {<<>>, <<"kill">>}
        /\ pc # "grace"
        /\ graceElapsed = 0
        /\ pc \in {"kill", "reap"} => (ctxDone /\ waitErr = Pending /\ ~waitReturned)
        /\ pc = "reap" => signals = <<"kill">>
        /\ (waitReturned /\ signals # <<>>) =>
              (childState = "exited" /\ waiterPc = "done" /\ waitErr # Pending /\ waitCh = <<>>)

\* On Windows the child was killed and the supervisor returned.
C13_Witness ==
    /\ goos = "windows"
    /\ signals = <<"kill">>
    /\ waitReturned
    /\ childState = "exited"

\* The entry an extraction is about: the first entry of the archive whose
\* base name is the executable's (and, in a tar.gz, that is a regular file);
\* 0 when there is none.
IsCandidate(h) ==
    /\ ~h.corrupt
    /\ h.name # <<>>
    /\ h.name[Len(h.name)] = bundledMCPExecutableName
    /\ (exFormat = "tar.gz" => h.regular)

FirstCandidate ==
    IF \E i \in 1..Len(exArchive) : IsCandidate(exArchive[i])
    THEN CHOOSE i \in 1..Len(exArchive) :
            /\ IsCandidate(exArchive[i])
            /\ \A j \in 1..(i - 1) : ~IsCandidate(exArchive[j])
    ELSE 0

\* The container can be read as far as the extractor needs it.
ReadableUpTo(i) ==
    \A j \in 1..Len(exArchive) :
        (exFormat = "zip" \/ j < i) => ~exArchive[j].corrupt

\* The extractor ran on a readable archive and met its candidate entry, and
\* the file system and the entry's reader did not fail.
RanOnCandidate ==
    /\ exResult # Pending
    /\ FirstCandidate > 0
    /\ ReadableUpTo(FirstCandidate)

NoIOFailure ==
    /\ exEnv.openOk
    /\ exEnv.closeOk
    /\ exEnv.ioFail # "write"
    /\ exFormat = "zip" => (exEnv.entryOpenOk /\ exEnv.rcCloseOk)

C15_InvalidDeclaredSizeRejectedFirst ==
    RanOnCandidate =>
        LET declared == exArchive[FirstCandidate].size
        IN  /\ (declared < 0 \/ declared > maxBundledExecutableBytes) =>
                  (exResult = Err("InvalidSize") /\ exOut = exOutBefore /\ exCopied = 0)
            /\ declared \in {0, maxBundledExecutableBytes} =>
                  /\ exResult # Err("InvalidSize")
                  /\ (NoIOFailure /\ exEnv.ioFail = "none"
                        /\ ContentLen(exArchive[FirstCandidate].stream) = declared)
                       => exResult = Nil

\* A 64 MiB + 1 declaration was refused with an older file at the output
\* path left untouched.
C15_Witness ==
    /\ exResult = Err("InvalidSize")
    /\ exArchive[FirstCandidate].size = maxBundledExecutableBytes + 1
    /\ exOutBefore = OldContent
    /\ exOut = OldContent

\* C16 (as claimed): if the archive holds an entry named executableName
\* (a regular file) with content C and declared size len(C) <= 64 MiB, the
\* extraction succeeds and the output file holds exactly C.
C16_NamedEntryRoundTrip ==
    (exResult # Pending /\ NoIOFailure /\ exEnv.ioFail = "none"
       /\ \A j \in 1..Len(exArchive) : ~exArchive[j].corrupt) =>
        \A i \in 1..Len(exArchive) :
            (/\ exArchive[i].name = <<bundledMCPExecutableName>>
             /\ exArchive[i].regular
             /\ exArchive[i].size = ContentLen(exArchive[i].stream)
             /\ exArchive[i].size <= maxBundledExecutableBytes)
            => (exResult = Nil /\ exOut = exArchive[i].stream)

\* C16 (amended): if the first entry whose base name is executableName
\* (and, in a tar.gz, that is a regular file) has content C and declared
\* size len(C) <= 64 MiB, the extraction succeeds, the output file holds
\* exactly C whatever was at the output path before, and the path is handed
\* out.
C16_FirstMatchRoundTrip ==
    (RanOnCandidate /\ NoIOFailure /\ exEnv.ioFail = "none"
       /\ exArchive[FirstCandidate].size = ContentLen(exArchive[FirstCandidate].stream)
       /\ exArchive[FirstCandidate].size <= maxBundledExecutableBytes) =>
        /\ exResult = Nil
        /\ exOut = exArchive[FirstCandidate].stream
        /\ exCopied = ContentLen(exArchive[FirstCandidate].stream)
        /\ exPath = "binaryPath"

\* A nested entry of exactly 64 MiB was extracted over an older file while
\* an entry with the exact name followed it.
C16_Witness ==
    /\ exResult = Nil
    /\ exOutBefore = OldContent
    /\ FirstCandidate > 0
    /\ FirstCandidate < Len(exArchive)
    /\ exArchive[FirstCandidate].name = NameNested
    /\ exOut = Content(<<1>>, maxBundledExecutableBytes - 1)

\* C17: on a readable archive none of whose entries has the executable's
\* base name, the extractor goes through every entry, fails with the
\* executable-not-found error and leaves the output path as it was.
C17_NoMatchIsNotFound ==
    (/\ exResult # Pending
     /\ \A j \in 1..Len(exArchive) :
           /\ ~exArchive[j].corrupt
           /\ exArchive[j].name[Len(exArchive[j].name)] # bundledMCPExecutableName) =>
        /\ exResult = Err("ExecutableNotFound")
        /\ exConsumed = Len(exArchive)
        /\ exOut = exOutBefore
        /\ exCopied = 0
        /\ exPath = ""

\* An archive whose only entry lies below a directory that has the
\* executable's name gave not-found.
C17_Witness ==
    /\ exResult = Err("ExecutableNotFound")
    /\ exArchive # <<>>
    /\ \A j \in 1..Len(exArchive) : exArchive[j].name = NameUnder
    /\ exConsumed = Len(exArchive)

\* A required item of the form KEY=VALUE with a non-empty KEY.
WellFormed(item) == item # <<>> /\ item[1] # Eq /\ HasPiece(item, Eq)

KeyOf(item) == SubSeq(item, 1, (CHOOSE i \in 1..Len(item) :
                                   item[i] = Eq /\ \A j \in 1..(i - 1) : item[j] # Eq) - 1)

AllowListed(key) == \E i \in 1..Len(allowedParentEnvKeys) : allowedParentEnvKeys[i] = key

ChildItems == {envChild[i] : i \in 1..Len(envChild)}
RequiredItems == {envRequired[i] : i \in 1..Len(envRequired)}

\* C18: the child environment holds every well-formed required pair as
\* given (of a key the list sets more than once, the last pair), whatever
\* the parent has for its key; everything else in it is the
\* parent's value of an allow-listed key that no required pair names; a
\* parent variable outside the allow-list is not in it; no key is in it
\* twice; and a parent environment that agrees on the allow-listed keys
\* gives the same child environment.
C18_ChildEnvRequiredOverAllowListed ==
    envPc \in {"start", "done"} =>
        /\ \A i \in 1..Len(envRequired) :
              (/\ WellFormed(envRequired[i])
               /\ \A j \in (i + 1)..Len(envRequired) :
                     WellFormed(envRequired[j]) => KeyOf(envRequired[j]) # KeyOf(envRequired[i]))
              => envRequired[i] \in ChildItems
        /\ \A item \in ChildItems :
              \/ item \in RequiredItems /\ WellFormed(item)
              \/ \E key \in DOMAIN envParent :
                    /\ AllowListed(key)
                    /\ envParent[key].set
                    /\ item = <<key, Eq>> \o envParent[key].val
                    /\ \A r \in RequiredItems : WellFormed(r) => KeyOf(r) # <<key>>
        /\ \A key \in DOMAIN envParent :
              (~AllowListed(key) /\ envParent[key].set
                 /\ (<<key, Eq>> \o envParent[key].val) \notin RequiredItems)
              => (<<key, Eq>> \o envParent[key].val) \notin ChildItems
        /\ \A i, j \in 1..Len(envChild) : KeyOf(envChild[i]) = KeyOf(envChild[j]) => i = j
        /\ \A other \in ParentEnvInputs :
              (\A key \in DOMAIN envParent : AllowListed(key) => other[key] = envParent[key])
              => buildChildProcessEnv(envRequired, other) = envChild

\* The required list and the parent both had PATH, with different values,
\* the parent had a proxy and a secret; the child got the required PATH and
\* the proxy.
C18_Witness ==
    /\ envPc = "done"
    /\ (<<"PATH", Eq>> \o PlainB) \in RequiredItems
    /\ envParent["PATH"] = Set(PlainA)
    /\ envParent["SECRET_SHOULD_NOT_PASS"] = Set(PlainA)
    /\ envParent["HTTPS_PROXY"] = Set(PlainA)
    /\ (<<"PATH", Eq>> \o PlainB) \in ChildItems
    /\ (<<"HTTPS_PROXY", Eq>> \o PlainA) \in ChildItems

\* C19 (as claimed): when the token, the host or a forwarded GITHUB_* value
\* holds a NUL byte or a line break, no environment entry with such a byte
\* reaches process creation and no child is started.
HasControl(item) == HasPiece(item, NulByte) \/ HasPiece(item, LineBreak)

C19_ControlCharactersRejected ==
    (envToken # <<>> /\ \E item \in RequiredItems : HasControl(item)) =>
        /\ envPc \in {"start", "done"} => \A item \in ChildItems : ~HasControl(item)
        /\ envStart # "started"

\* C20: createTempDirWithFallback hands the candidates to createTempDir in
\* list order, each position once; it returns at the first success, with
\* that candidate's staging directory and without touching later ones; it
\* fails only after every candidate failed, with one error per candidate in
\* order; an empty list stands for the system temp root alone; and the list
\* built by bundledServerTempParentDirs ends with the system temp root.
IsPrefix(p, q) == Len(p) <= Len(q) /\ \A i \in 1..Len(p) : p[i] = q[i]

TriedList == IF parentDirs = <<>> THEN <<"">> ELSE parentDirs

C20_FallbackInListOrder ==
    /\ IsPrefix(fbTried, TriedList)
    /\ Len(attemptErrs) = Len(fbTried) - (IF fbReturned > 0 THEN 1 ELSE 0)
    /\ \A i \in 1..Len(attemptErrs) : (attemptErrs[i] = "MkdirTempFailed") <=> (fbTried[i] = "")
    /\ fbReturned > 0 =>
          /\ fbReturned = Len(fbTried)
          /\ pc = "extract"
          /\ stagingCreated
          /\ result = Pending
          /\ cleanupKind = (IF TriedList[fbReturned] = "" THEN "system" ELSE "verified")
    /\ pc = "fallback" => (fbReturned = 0 /\ result = Pending)
    /\ pc = "done" =>
          /\ result = Err("TempDirFailed")
          /\ fbReturned = 0
          /\ fbTried = TriedList
          /\ Len(attemptErrs) = Len(TriedList)
          /\ ~stagingCreated
    /\ \A ok \in BOOLEAN :
          LET dirs == bundledServerTempParentDirs(ok)
          IN  Len(dirs) >= 1 /\ dirs[Len(dirs)] = ""

\* The first candidate failed and the second, the system temp root, gave
\* the staging directory.
C20_Witness ==
    /\ Len(parentDirs) = 2
    /\ attemptErrs = <<"InsecureParent">>
    /\ fbReturned = 2
    /\ fbTried = <<"cache", "">>
    /\ pc = "extract"

\* C21: the status mainRun returns is 0 exactly when the run returned no
\* error, which includes every shutdown in which the supervisor acted on the
\* cancellation, and 1 otherwise; a child that ended with non-zero code c
\* while the context was live gives status 1, and c is found only in the
\* error.
C21_ExitStatusZeroOrOne ==
    /\ exitCode \in {-1, 0, 1}
    /\ exitCode # -1 =>
          /\ pc = "done"
          /\ result # Pending
          /\ exitCode = 0 <=> result = Nil
          /\ (signals # <<>> \/ ctxAtObserve = "cancelled") => exitCode = 0
          /\ result.kind = "ServerNonZeroExit" =>
                /\ exitCode = 1
                /\ result.code = exitStatus
                /\ exitStatus # 0
          /\ (~ctxDone /\ waitErr.kind = "ExitError") =>
                /\ exitCode = 1
                /\ result = [kind |-> "ServerNonZeroExit", code |-> exitStatus]

\* The child ended with code 9 and the wrapper's status is 1.
C21_Witness ==
    /\ exitCode = 1
    /\ result = [kind |-> "ServerNonZeroExit", code |-> 9]
    /\ exitStatus = 9

\* C22: in auto mode the Podman path is entered exactly when runDocker
\* failed with ErrDockerUnavailable; in docker mode it is never entered and
\* a Docker-unavailable failure is what runWithRunner returns; in every
\* mode the Podman CLI is entered only after the socket path failed with
\* ErrPodmanSocketUnavailable, and always then.
Tried(path) == \E i \in 1..Len(engTried) : engTried[i] = path

C22_EngineSelection ==
    /\ engine = engineAuto =>
          /\ Tried("podmanSocket") => Is(dockerErr, "DockerUnavailable")
          /\ (Is(dockerErr, "DockerUnavailable") /\ dockerErr # {"pending"}) =>
                Tried("podmanSocket")
    /\ engine = engineDocker =>
          /\ ~Tried("podmanSocket") /\ ~Tried("podmanCLI")
          /\ engPc = "done" => engErr = dockerErr
    /\ engine = enginePodman => ~Tried("docker") /\ dockerErr = {"pending"}
    /\ Tried("podmanCLI") =>
          /\ Tried("podmanSocket")
          /\ engTried[Len(engTried)] = "podmanCLI"
          /\ engine # engineDocker
          /\ Is(socketErr, "PodmanSocketUnavailable")
    /\ (Is(socketErr, "PodmanSocketUnavailable") /\ socketErr # {"pending"}) =>
          Tried("podmanCLI")
    /\ (engPc = "done" /\ Tried("podmanSocket") /\ ~Tried("podmanCLI")) => engErr = socketErr
    /\ \A i, j \in 1..Len(engTried) : engTried[i] = engTried[j] => i = j
    /\ engPc = "done" => (openClients = 0 /\ engErr # {"pending"})

\* Auto mode: Docker did not answer the ping, no Podman socket was
\* reachable, and the run ended in the Podman CLI.
C22_Witness ==
    /\ engine = engineAuto
    /\ engTried = <<"docker", "podmanSocket", "podmanCLI">>
    /\ Is(dockerErr, "DockerUnavailable")
    /\ Is(socketErr, "PodmanSocketUnavailable")
    /\ engPc = "done"
    /\ engErr = NoErr

\* C23: the arguments buildPodmanRunArgs returns hold no piece of any
\* value: after the six fixed arguments come "--env" and the key alone for
\* each entry, then the image and "stdio", while the command environment
\* holds each entry as given; two lists that differ only in values get the
\* same arguments; the call fails, returning neither arguments nor
\* environment, exactly when some entry has no "=" or an empty key.
InvalidEntry(item) == ~Cut(item).ok \/ Cut(item).key = <<>>
HoldsSecret(arg) == \E i \in 1..Len(arg) : arg[i] \in SecretPieces \/ arg[i] = Eq

ArgsKeepValuesOut(env, out) ==
    IF \E i \in 1..Len(env) : InvalidEntry(env[i])
    THEN out = [args |-> <<>>, cmdEnv |-> <<>>, err |-> InvalidEnvEntry]
    ELSE /\ out.err = Nil
         /\ Len(out.args) = 6 + 2 * Len(env) + 2
         /\ \A i \in 1..Len(out.args) : ~HoldsSecret(out.args[i])
         /\ \A i \in 1..Len(env) :
               /\ out.args[6 + 2 * i - 1] = <<"--env">>
               /\ out.args[6 + 2 * i] = Cut(env[i]).key
         /\ out.args[Len(out.args) - 1] = TestImage
         /\ out.args[Len(out.args)] = <<"stdio">>
         /\ out.cmdEnv = env

C23_ValuesNeverInArgs ==
    paPc = "done" =>
        /\ ArgsKeepValuesOut(paEnvA, paOutA)
        /\ ArgsKeepValuesOut(paEnvB, paOutB)
        /\ paOutA.args = paOutB.args
        /\ paOutA.err = paOutB.err

\* Two lists with the same two keys and different secrets were both
\* turned into arguments.
C23_Witness ==
    /\ paPc = "done"
    /\ Len(paEnvA) = 2
    /\ paEnvA # paEnvB
    /\ paOutA.err = Nil
    /\ paEnvA[1] = <<"GITHUB_PERSONAL_ACCESS_TOKEN", Eq, "s1">>
    /\ paEnvB[1] = <<"GITHUB_PERSONAL_ACCESS_TOKEN", Eq, "s1", Eq, "s2">>
    /\ paOutA.args = paOutB.args

\* A step that closes the parent handle, and a step in which the current
\* candidate fails with one of the given errors.
HandleClosedNow == handleSt' = "closed" /\ closeCount' = closeCount + 1
FailedWith(kinds) ==
    /\ pc' = "fallback"
    /\ Len(attemptErrs') = Len(attemptErrs) + 1
    /\ attemptErrs'[Len(attemptErrs')] \in kinds

\* C24: in ensureSecureTempParentDir, when the handle's fstat shows another
\* object than the first lstat did, or the final lstat shows another object
\* at the path than the handle, the call fails with InsecureParent and the
\* handle is closed; the call succeeds only when the first lstat, the
\* handle and the final lstat all show the same directory, and then the
\* handle stays open.  (When the fstat itself fails no identity of the
\* handle is seen; the handle is closed all the same.)
C24_SwapDuringEnsureIsInsecureParent ==
    [][ /\ (pc = "open" /\ handleSt' # handleSt /\ lstatInfo.id # handleObj') =>
              /\ FailedWith({"InsecureParent", "StatFailed"})
              /\ HandleClosedNow
        /\ (pc = "finallstat" /\ pc' # pc /\ pathObj # Missing /\ pathObj # handleObj) =>
              /\ FailedWith({"InsecureParent"})
              /\ HandleClosedNow
        /\ (pc = "finallstat" /\ pc' = "create") =>
              /\ lstatInfo.id = handleObj
              /\ handleInfo.id = handleObj
              /\ pathObj = handleObj
              /\ Kind(handleObj) = "dir"
              /\ handleSt' = "open"
              /\ closeCount' = 0
      ]_vars

\* The path was given another directory after the handle was opened; the
\* final lstat saw it, the call failed with InsecureParent and the handle
\* is closed.
C24_Witness ==
    /\ attemptErrs = <<"InsecureParent">>
    /\ handleObj = "D1"
    /\ pathObj = "D2"
    /\ handleSt = "closed"
    /\ swapsLeft = 0
    /\ pc = "fallback"

\* C25: when the identity re-check made right after the staging directory
\* was created fails, the directory just created is removed (through the
\* handle on POSIX), the error of the re-check is returned, and neither a
\* staging path nor a release action comes back.
C25_FailedRecheckRemovesNewDirectory ==
    [][ (pc = "createundo" /\ pc' # pc) =>
            /\ stagingHome \in entries
            /\ stagingHome \notin entries'
            /\ goos # "windows" =>
                  Op("remove", handleObj, "handle", "verified") \in fsOps'
            /\ FailedWith({afterCleanup.kind})
            /\ HandleClosedNow
            /\ ~stagingCreated'
            /\ cleanupKind' = "none"
      ]_vars

\* C26: on POSIX createTempDirInVerifiedParent makes at most 256 rounds of
\* name generation and Mkdirat; a round that collides is the only one
\* followed by another round; a failed name generation or any other
\* Mkdirat error ends the call at once; the attempts-exhausted error is
\* returned exactly when 256 rounds collided.
C26_AtMost256Attempts ==
    [][ ((goos # "windows" /\ pc = "create" /\ handleSt = "open" /\ pc' # "create")
            \/ (attempt' = attempt + 1)) =>
            /\ attempt <= 256
            /\ pc' = "create" =>
                  /\ attempt < 256
                  /\ attempt' = attempt + 1
                  /\ entries' = entries /\ fsOps' = fsOps
                  /\ handleSt' = "open"
            /\ pc' = "createverify" =>
                  /\ attempt < 256
                  /\ handleObj \in entries'
                  /\ Op("mkdir", handleObj, "handle", "verified") \in fsOps'
            /\ pc' = "fallback" =>
                  /\ FailedWith({"AttemptsExhausted", "MkdirFailed", "NameFailed"})
                  /\ FailedWith({"AttemptsExhausted"}) <=> attempt = 256
                  /\ entries' = entries
                  /\ HandleClosedNow
            /\ pc' \in {"create", "createverify", "fallback"}
      ]_vars

\* 256 rounds collided and the call ended with the attempts-exhausted
\* error.
C26_Witness ==
    /\ attemptErrs = <<"AttemptsExhausted">>
    /\ handleSt = "closed"
    /\ entries = {}
    /\ pc = "fallback"

\* C27: on POSIX the step of ensureSecureUnixTempParentDir changes
\* permissions only on the object of the open handle, only after the owner
\* of that object was found to be the effective user, and only when group
\* or other bits are set; an object owned by another user is rejected with
\* InsecureParent and keeps its mode; an object without group/other bits
\* keeps its mode.
C27_ChmodOnlyAfterOwnerCheck ==
    [][ (goos # "windows" /\ pc = "tighten" /\ pc' # pc) =>
            /\ handleInfo.uid # EffectiveUid =>
                  /\ FailedWith({"InsecureParent"})
                  /\ HandleClosedNow
                  /\ meta' = meta
            /\ GroupOtherBits(handleInfo.perm) = 0 => meta' = meta
            /\ meta' # meta =>
                  /\ handleInfo.uid = EffectiveUid
                  /\ meta[handleObj].uid = EffectiveUid
                  /\ GroupOtherBits(meta[handleObj].perm) # 0
                  /\ meta'[handleObj].perm = Perm0700
                  /\ \A o \in Objs \ {handleObj} : meta'[o] = meta[o]
      ]_vars

\* What holds of the waiter and its channel in every state, and what
\* every step that touches them looks like.
WaiterState ==
    /\ Len(waitCh) <= 1
    /\ waiterPc = "idle" <=> childState = "notstarted"
    /\ waiterPc = "done" => childState = "exited"
    /\ waiterPc = "waiting" => (waitCh = <<>> /\ waitErr = Pending)
    /\ waitErr # Pending => (waiterPc = "done" /\ waitCh = <<>>)

ChannelSteps ==
    /\ Len(waitCh') > Len(waitCh) =>
          /\ waiterPc = "waiting" /\ waiterPc' = "done"
          /\ waitCh = <<>> /\ Len(waitCh') = 1
          /\ waitErr' = waitErr
    /\ Len(waitCh') < Len(waitCh) =>
          /\ pc \in {"select", "grace", "reap"}
          /\ waitErr = Pending /\ waitErr' = Head(waitCh)
          /\ waiterPc = "done" /\ waiterPc' = "done"
    /\ waitErr' # waitErr => Len(waitCh') < Len(waitCh)
    /\ waiterPc' # waiterPc =>
          \/ (waiterPc = "idle" /\ waiterPc' = "waiting" /\ pc = "startcmd")
          \/ (waiterPc = "waiting" /\ waiterPc' = "done" /\ Len(waitCh') > Len(waitCh))

\* C28: one waiter, started with the child, delivers one result to the
\* channel of capacity one: its send finds the channel empty, so it never
\* blocks, and once the child has exited the waiter finishes; the
\* supervisor takes a value from the channel at most once in a run, the
\* one the waiter sent, and nothing else sends or receives.
C28_OneWaiterOneResult ==
    /\ []WaiterState
    /\ [][ChannelSteps]_vars
    /\ (childState = "exited" /\ waiterPc = "waiting") ~> (waiterPc = "done")

\* The child was killed, the waiter delivered and the supervisor took the
\* result after the kill.
C28_Witness ==
    /\ waiterPc = "done"
    /\ waitErr # Pending
    /\ waitCh = <<>>
    /\ signals = <<"interrupt", "kill">>
    /\ waitReturned

\* What holds of the child and the signals in every state, and what every
\* step that starts the child or sends a signal looks like.
SupervisorState ==
    /\ childState \in {"notstarted", "running", "exited"}
    /\ signals # <<>> => (ctxDone /\ childState # "notstarted")
    /\ (pc = "done" /\ ~ctxDone) => signals = <<>>
    /\ Len(signals) <= 2
    /\ \A i \in 1..Len(signals) :
          signals[i] = (IF i = 1 /\ goos # "windows" THEN "interrupt" ELSE "kill")

SupervisorSteps ==
    /\ childState' # childState =>
          \/ (childState = "notstarted" /\ childState' = "running" /\ pc = "startcmd")
          \/ (childState = "running" /\ childState' = "exited")
    /\ signals' # signals =>
          /\ ctxDone
          /\ childState # "notstarted"
          /\ Len(signals') = Len(signals) + 1
          /\ waitErr = Pending /\ waitErr' = Pending
          /\ ~waitReturned

\* C29: the child goes from not started to running to exited and is
\* started at most once; a signal is sent only after the context was
\* cancelled, so a run that ends without cancellation has sent none; and
\* no signal, the kill included, is sent once the exit was taken from the
\* channel.
C29_SupervisorStateMachine ==
    /\ []SupervisorState
    /\ [][SupervisorSteps]_vars

\* The exit was taken from the channel during the grace window: one
\* interrupt, no kill.
C29_Witness ==
    /\ signals = <<"interrupt">>
    /\ waitErr # Pending
    /\ waitReturned
    /\ pc = "done"
    /\ childState = "exited"

\* What holds of the parent handle in every state, and what every step
\* that opens or closes it looks like.
HandleState ==
    /\ closeCount \in {0, 1}
    /\ handleSt = "none" => closeCount = 0
    /\ handleSt = "open" => closeCount = 0
    /\ handleSt = "closed" <=> closeCount = 1
    /\ pc \in {"fallback", "done"} => handleSt # "open"
    /\ pc \in {"tighten", "finallstat", "create", "createverify", "createundo"} =>
          handleSt = "open"
    /\ (cleanupKind = "verified" /\ pc \notin {"done"}) => handleSt = "open"
    /\ cleanupKind = "system" => handleSt # "open"

HandleSteps ==
    /\ closeCount' # closeCount =>
          /\ closeCount' = closeCount + 1
          /\ handleSt' = "closed"
          /\ handleSt = "open" \/ (handleSt = "none" /\ pc = "open")
          /\ pc' \in {"fallback", "done"}
    /\ handleSt' # handleSt =>
          \/ (handleSt = "none" /\ pc = "open")
          \/ (handleSt = "open" /\ handleSt' = "closed")
    /\ (handleSt = "open" /\ pc' \in {"fallback", "done"}) => closeCount' = 1

\* C30: every failure of ensureSecureTempParentDir and createTempDir after
\* the handle was opened closes it in the step that returns; after a
\* success it stays open until the release action, which closes it once;
\* in all it is closed at most once, never when it was not opened, and the
\* fallback loop is never entered again with the handle open.
C30_HandleStackDiscipline ==
    /\ []HandleState
    /\ [][HandleSteps]_vars

\* The staging directory was made under the verified parent, the run went
\* on to the child, and the release action has closed the handle.
C30_Witness ==
    /\ cleanupKind = "verified"
    /\ stagingCreated
    /\ waitReturned
    /\ pc = "done"
    /\ handleSt = "closed"
    /\ closeCount = 1
    /\ attemptErrs = <<>>

\* What holds once the run is over, and what each step of the release
\* closure of a verified parent looks like.
ReleaseDone ==
    (pc = "done" /\ stagingCreated /\ cleanupKind = "verified") =>
        /\ cleanupCalls = 1
        /\ recheck \in {"passed", "failed"}
        /\ handleSt = "closed"
        /\ closeCount = 1

ReleaseSteps ==
    /\ (pc = "cleanup" /\ cleanupKind = "verified" /\ pc' # pc) =>
          /\ handleSt = "open"
          /\ entries' = entries
          /\ \/ (recheck' = "passed" /\ pc' = "cleanupremove" /\ handleSt' = "open")
             \/ (recheck' = "failed" /\ pc' = "done" /\ handleSt' = "closed")
    /\ pc = "cleanupremove" =>
          /\ handleSt = "open"
          /\ recheck = "passed"
          /\ pc' # pc => (pc' = "done" /\ handleSt' = "closed")
    /\ (cleanupKind = "verified" /\ entries' # entries) => pc = "cleanupremove"
    /\ (stagingCreated /\ cleanupKind = "verified" /\ handleSt' # handleSt) =>
          (pc \in {"cleanup", "cleanupremove"} /\ pc' = "done")

\* C31: the release of a verified parent runs in reverse order of
\* acquisition: the parent is re-validated while its handle is still open,
\* the staging directory is removed only after that passed and with the
\* handle open, and the handle is closed in the step that ends the release,
\* also when the removal was refused; after any return the release ran once.
C31_ReleaseInReverseOrder ==
    /\ []ReleaseDone
    /\ [][ReleaseSteps]_vars

\* The re-validation failed: nothing was removed and the handle is closed.
C31_Witness ==
    /\ pc = "done"
    /\ stagingCreated
    /\ cleanupKind = "verified"
    /\ recheck = "failed"
    /\ releaseRemoved = "nothing"
    /\ handleSt = "closed"
    /\ closeCount = 1

\* The archive without its entries that are not regular files, and the
\* extractor chosen by the archive format.
RegularOnly(arch) == SelectSeq(arch, LAMBDA h : h.regular)

ExtractorOf(format, arch, out, env) ==
    IF format = "zip" THEN extractZipExecutable(arch, out, env)
    ELSE extractTarGzExecutable(arch, out, env)

\* C32: entries that are not regular files are never extracted and never
\* end the scan, in either extractor: the error, the output file and the
\* bytes copied are those of the same archive with these entries left out.
C32_NonRegularEntriesSkipped ==
    exResult # Pending =>
        LET o == ExtractorOf(exFormat, RegularOnly(exArchive), exOutBefore, exEnv)
        IN  /\ exResult = o.err
            /\ exOut = o.out
            /\ exCopied = o.copied

\* No header of the archive is unreadable.
Readable(arch) == \A i \in 1..Len(arch) : ~arch[i].corrupt

\* Some entry the extractor of this format looks at carries one of `names`.
Stores(format, arch, names) ==
    \E i \in 1..Len(arch) : arch[i].name \in names /\ (format = "zip" \/ arch[i].regular)

\* C33 as stated: an entry stored as nested/github-mcp-server or as
\* nested\github-mcp-server is matched, so the executable is found.
C33_EitherSeparatorMatched ==
    (/\ exResult # Pending
     /\ Readable(exArchive)
     /\ Stores(exFormat, exArchive, {NameNested, NameBackslash}))
        => exResult # Err("ExecutableNotFound")

\* C33 (amended): entries are matched by the part of their name after the
\* last "/": nested/github-mcp-server is matched like github-mcp-server,
\* while nested\github-mcp-server is a name of its own and is not matched.
C33_SlashBaseNameMatched ==
    (exResult # Pending /\ Readable(exArchive)) =>
        (Stores(exFormat, exArchive, {NameExact, NameNested})
            <=> exResult # Err("ExecutableNotFound"))

\* An archive that stores the executable under a backslash name only.
C33_Witness ==
    /\ exResult = Err("ExecutableNotFound")
    /\ Readable(exArchive)
    /\ Stores(exFormat, exArchive, {NameBackslash})
    /\ ~Stores(exFormat, exArchive, {NameExact, NameNested})

\* The positions of the entries that carry the executable's base name and
\* that the extractor of this format looks at, and the first of them.
MatchingAt(format, arch) ==
    {i \in 1..Len(arch) :
        arch[i].name \in {NameExact, NameNested} /\ (format = "zip" \/ arch[i].regular)}

FirstOf(S) == CHOOSE i \in S : \A j \in S : i <= j

\* C34: when several entries match, the extractor ends with the error, the
\* output file and the byte count it has on the archive cut off right
\* after the first matching entry, and it goes through no entry after it.
C34_FirstMatchDecides ==
    (/\ exResult # Pending
     /\ Readable(exArchive)
     /\ Cardinality(MatchingAt(exFormat, exArchive)) >= 2) =>
        LET k == FirstOf(MatchingAt(exFormat, exArchive))
            o == ExtractorOf(exFormat, SubSeq(exArchive, 1, k), exOutBefore, exEnv)
        IN  /\ exResult = o.err
            /\ exOut = o.out
            /\ exCopied = o.copied
            /\ exConsumed = k

\* Two matching entries; the first declares an invalid size, the second
\* would have been extracted: the extraction ends with the first one's
\* error and the output file is untouched.
C34_Witness ==
    /\ exResult = Err("InvalidSize")
    /\ Readable(exArchive)
    /\ Cardinality(MatchingAt(exFormat, exArchive)) >= 2
    /\ exConsumed = FirstOf(MatchingAt(exFormat, exArchive))
    /\ exOut = exOutBefore

\* The step runBundledServer takes at its context check when the context
\* is cancelled, and what the run looks like after a nil return with no
\* child ever started.
CancelledAtCheckStep ==
    (pc = "ctxcheck" /\ ctxDone /\ pc' # pc) =>
        /\ pc' = "cleanup"
        /\ afterCleanup' = Nil
        /\ childState' = "notstarted"
        /\ cleanupCalls' = 0

ReturnedWithoutChild ==
    (afterCleanup = Nil /\ childState = "notstarted") =>
        /\ ctxDone
        /\ stagingCreated
        /\ signals = <<>>
        /\ pc \in {"cleanup", "cleanupremove", "done"}
        /\ pc = "done" => (result = Nil /\ cleanupCalls = 1 /\ exitCode \in {-1, 0})

\* C35: with the context cancelled when the executable has been
\* materialized, runBundledServer starts no child, returns nil, and its
\* deferred release of the staging directory runs once.
C35_CancelledBeforeStart ==
    /\ []ReturnedWithoutChild
    /\ [][CancelledAtCheckStep]_vars

\* The run ended with success, no child was started and the release ran.
C35_Witness ==
    /\ pc = "done"
    /\ ctxDone
    /\ stagingCreated
    /\ childState = "notstarted"
    /\ result = Nil
    /\ cleanupCalls = 1
    /\ exitCode = 0

\* Key and value of the i-th required entry; the entries that have "="
\* and a key; among them the first of each key; the last of a key.
ReqKey(i) == Cut(envRequired[i]).key
ReqValue(i) == Cut(envRequired[i]).value
ValidReq == {i \in 1..Len(envRequired) : Cut(envRequired[i]).ok /\ ReqKey(i) # <<>>}
FirstReq == {i \in ValidReq : \A j \in ValidReq : j < i => ReqKey(j) # ReqKey(i)}
LastReq(k) == CHOOSE i \in ValidReq : ReqKey(i) = k /\ \A j \in ValidReq : ReqKey(j) = k => j <= i
RankReq(i) == Cardinality({j \in FirstReq : j <= i})
AllowedKeys == {allowedParentEnvKeys[n] : n \in 1..Len(allowedParentEnvKeys)}

\* C36: the list built by buildChildProcessEnv holds each key once;
\* required entries without "=" or with an empty key are left out; the
\* required keys come first, in the order of their first occurrence, each
\* with the value of its last occurrence; after them come only allow-listed
\* parent keys that no required entry sets, with the parent's value.
C36_ChildEnvKeysOnceInOrder ==
    envPc \in {"start", "done"} =>
        /\ \A i, j \in 1..Len(envChild) :
              i # j => Cut(envChild[i]).key # Cut(envChild[j]).key
        /\ \A i \in 1..Len(envChild) : Cut(envChild[i]).ok /\ Cut(envChild[i]).key # <<>>
        /\ \A r \in (1..Len(envRequired)) \ ValidReq :
              \A i \in 1..Len(envChild) : envChild[i] # envRequired[r]
        /\ Len(envChild) >= Cardinality(FirstReq)
        /\ \A i \in FirstReq :
              envChild[RankReq(i)] = ReqKey(i) \o <<Eq>> \o ReqValue(LastReq(ReqKey(i)))
        /\ \A p \in (Cardinality(FirstReq) + 1)..Len(envChild) :
              \E k \in AllowedKeys :
                 /\ \A i \in ValidReq : ReqKey(i) # <<k>>
                 /\ LookupEnv(envParent, k).set
                 /\ envChild[p] = <<k, Eq>> \o LookupEnv(envParent, k).val

\* PATH is required twice with different values and set in the parent:
\* the child gets it once, first in the list, with the later value, and a
\* forwarded parent key after the required ones.
C36_Witness ==
    /\ envPc = "done"
    /\ \E i, j \in ValidReq : i < j /\ ReqKey(i) = ReqKey(j) /\ ReqValue(i) # ReqValue(j)
                              /\ i \in FirstReq /\ RankReq(i) = 1
                              /\ envChild[1] = ReqKey(i) \o <<Eq>> \o ReqValue(j)
    /\ (1..Len(envRequired)) \ ValidReq # {}
    /\ LookupEnv(envParent, "PATH").set
    /\ Len(envChild) > Cardinality(FirstReq)

\* The uint64 value of the limbs is at most 64 MiB = 1024 * 65536.
AtMost64MiB(u) == u[1] = 0 /\ u[2] = 0 /\ (u[3] < 1024 \/ (u[3] = 1024 /\ u[4] = 0))

\* C37: validateZipExecutableSize returns nil exactly for the unsigned
\* 64-bit sizes from 0 to 64 MiB, and the invalid-size error for every
\* other one, those above the largest signed 64-bit integer included.
C37_ZipSizeAcceptedUpTo64MiB ==
    zsResult # Pending =>
        /\ zsResult = Nil <=> AtMost64MiB(zsSize)
        /\ zsResult # Nil => zsResult = Err("InvalidSize")

\* A size above the largest signed 64-bit integer whose low 32 bits alone
\* would be in range was rejected.
C37_Witness ==
    /\ zsResult = Err("InvalidSize")
    /\ zsSize[1] >= 32768
    /\ zsSize[3] = 0
    /\ zsSize[4] = 1

\* Some file of bundled/ is no longer what it was before the run.
BundledTouched == \E n \in PrepareFiles : prBundled[n] # prBundledBefore[n]

VerificationFailures ==
    {Err(k) : k \in {"DownloadFailed", "AttestationFailed", "ReadChecksumsFailed",
                     "ChecksumNotFound", "HashFailed", "ChecksumMismatch"}}

\* C38: a file of bundled/ is removed or replaced only when the
\* attestation of the checksums file was verified and every asset is
\* listed in that file with the SHA-256 of the downloaded file; after a
\* failed download, attestation or checksum step bundled/ is as it was;
\* and once run has returned the staging directory is gone.
C38_PromoteOnlyAfterVerification ==
    /\ BundledTouched =>
          /\ prAttested = "ok"
          /\ \A a \in AssetNames :
                /\ prChecksums[a] # "absent"
                /\ prStaged[a] # "absent" => prStaged[a] = prChecksums[a]
                /\ prBundled[a] \notin {"absent", prBundledBefore[a]} =>
                      prBundled[a] = prChecksums[a]
    /\ (prPc = "done" /\ prErr \in VerificationFailures) => ~BundledTouched
    /\ prPc = "done" => (~prStagingDir /\ prStaged = NoFiles)

\* The attestation passed and the first asset matched, the second did
\* not: the files that were in bundled/ are still there.
C38_Witness ==
    /\ prPc = "done"
    /\ prErr = Err("ChecksumMismatch")
    /\ prAttested = "ok"
    /\ prChecksums = [a \in AssetNames |-> "d1"]
    /\ prBundledBefore = [n \in PrepareFiles |-> "old"]
    /\ prBundled = prBundledBefore
    /\ ~prStagingDir

====
